---- MODULE Spec2Model ----
(***************************************************************************)
(* Cyber Tonic: the weighted gap analysis of src/assessment_enhancements.py *)
(* (classes AssessmentWeights and AdvancedGapAnalysis) with its charts, the *)
(* JSON persistence of src/data_persistence.py and the assessment dashboard *)
(* of apps/client_portal.py.                                                *)
(*                                                                         *)
(* Numbers.  Scores and weights are Python floats that the application     *)
(* enters with one decimal at most (number_input step 1, slider step 0.1). *)
(* The model keeps them as integers in tenths: score 2.0 is 20, weight 1.5 *)
(* is 15.  A product score * weight is therefore in hundredths (3.0 is     *)
(* 300).  On this grid the float product and the exact product fall in the *)
(* same tier for every score 0.0..10.0 and weight 0.1..2.0.                *)
(*                                                                         *)
(* Dictionaries.  A Python dict whose iteration order matters is a         *)
(* sequence of [k, v] entries in insertion order with distinct keys; a     *)
(* dict that is only looked up is a TLA+ function.                         *)
(***************************************************************************)
EXTENDS Integers, Sequences, FiniteSets, TLC

VARIABLES
    nist_data,     \* the taxonomy handed to analyze_gaps_with_weights
    assessments,   \* the client's assessments dict (insertion ordered)
    weights,       \* the client's saved weight map: function id -> weight (tenths)
    gap_data,      \* the list the analysis returned
    pc,            \* "ready" before the call, "returned" after it
    call,          \* one direct call of a method: arguments and result
    charts,        \* what the charts of the gap analysis page were drawn from
    files,         \* the JSON files of DataPersistence: clients, assessments,
                   \* evidence_files
    session,       \* st.session_state of the client portal
    created        \* the snapshot data handed to create_assessment_snapshot so
                   \* far, oldest first (history)

vars == <<nist_data, assessments, weights, gap_data, pc, call, charts, files, session, created>>

gapVars == <<nist_data, assessments, weights, gap_data, pc>>

storeVars == <<charts, files, session, created>>

analysisVars == <<nist_data, assessments, weights, gap_data, charts>>

----------------------------------------------------------------------------
(* Units *)

\* n points (a score or a weight written n.0) in tenths
Pt(n) == n * 10

\* n points of an adjusted score (score * weight) in hundredths
Pt2(n) == n * 100

----------------------------------------------------------------------------
(* Python dict helpers *)

\* d.get(k, default) on a dict that is a function
Get(d, k, default) == IF k \in DOMAIN d THEN d[k] ELSE default

\* the keys of an insertion-ordered dict
Keys(d) == {d[i].k : i \in 1..Len(d)}

\* k in d
Has(d, k) == \E i \in 1..Len(d) : d[i].k = k

\* d[k], for k in d
Lookup(d, k) == d[CHOOSE i \in 1..Len(d) : d[i].k = k].v

\* the empty dict {}
EmptyDict == [x \in {} |-> 0]

\* the value None
None == [none |-> TRUE]

\* d[k] = v on an insertion-ordered dict: a new key goes last, a key that is
\* there keeps its place
SetItem(d, k, v) ==
    IF Has(d, k)
    THEN [i \in 1..Len(d) |-> IF d[i].k = k THEN [k |-> k, v |-> v] ELSE d[i]]
    ELSE Append(d, [k |-> k, v |-> v])

\* d[k] = v on a dict that is a function
Put(d, k, v) == [x \in DOMAIN d \cup {k} |-> IF x = k THEN v ELSE d[x]]

\* del d[k] on a dict that is a function
Del(d, k) == [x \in DOMAIN d \ {k} |-> d[x]]

----------------------------------------------------------------------------
(* AdvancedGapAnalysis *)

\* the mutant treats the boundary value as the more urgent tier (<= for <)
calculate_priority_score_inclusive(score, w) ==
    LET adjusted_score == IF DOMAIN w # {}
                          THEN score * Get(w, "function_weight", Pt(1))
                          ELSE score * Pt(1)
    IN  IF adjusted_score <= Pt2(3) THEN "Critical"
        ELSE IF adjusted_score <= Pt2(5) THEN "High"
        ELSE IF adjusted_score <= Pt2(7) THEN "Medium"
        ELSE "Low"

\* the mutant tests the tiers in the wrong order, so that the tier is not
\* monotone in the score
calculate_priority_score_unordered(score, w) ==
    LET adjusted_score == IF DOMAIN w # {}
                          THEN score * Get(w, "function_weight", Pt(1))
                          ELSE score * Pt(1)
    IN  IF adjusted_score < Pt2(3) THEN "Critical"
        ELSE IF adjusted_score < Pt2(5) THEN "Medium"
        ELSE IF adjusted_score < Pt2(7) THEN "High"
        ELSE "Low"

\* the mutant divides the score by the function weight
calculate_priority_score_dividing(score, w) ==
    LET adjusted_score == IF DOMAIN w # {}
                          THEN (score * Pt2(1)) \div Get(w, "function_weight", Pt(1))
                          ELSE score * Pt(1)
    IN  IF adjusted_score < Pt2(3) THEN "Critical"
        ELSE IF adjusted_score < Pt2(5) THEN "High"
        ELSE IF adjusted_score < Pt2(7) THEN "Medium"
        ELSE "Low"

\* calculate_priority_score(score, weights): `if weights:` is false for None
\* and for {}, both are the empty dict here
calculate_priority_score(score, w) ==
    LET adjusted_score == IF DOMAIN w # {}
                          THEN score * Get(w, "function_weight", Pt(1))
                          ELSE score * Pt(1)
    IN  IF adjusted_score < Pt2(3) THEN "Critical"
        ELSE IF adjusted_score < Pt2(5) THEN "High"
        ELSE IF adjusted_score < Pt2(7) THEN "Medium"
        ELSE "Low"

\* the mutant applies the score override after the priority tests
get_remediation_urgency_priority_first(priority, score) ==
    IF priority = "Critical" THEN "Immediate"
    ELSE IF priority = "High" THEN "High"
    ELSE IF priority = "Medium" THEN "Medium"
    ELSE IF score < Pt(2) THEN "Immediate"
    ELSE IF score < Pt(4) THEN "High"
    ELSE "Low"

\* the mutant decides the two upper levels by the raw score alone
get_remediation_urgency_score_only(priority, score) ==
    IF score < Pt(2) THEN "Immediate"
    ELSE IF score < Pt(4) THEN "High"
    ELSE IF priority = "Medium" THEN "Medium"
    ELSE "Low"

\* _get_remediation_urgency(priority, score)
get_remediation_urgency(priority, score) ==
    IF priority = "Critical" \/ score < Pt(2) THEN "Immediate"
    ELSE IF priority = "High" \/ score < Pt(4) THEN "High"
    ELSE IF priority = "Medium" THEN "Medium"
    ELSE "Low"

\* the mutant forgets the priority test of the gap rule
is_gap_no_priority(status, score, priority) ==
    \/ status \in {"Not Implemented", "Partially Implemented"}
    \/ score < Pt(5)

\* is_gap of analyze_gaps_with_weights
is_gap(status, score, priority) ==
    \/ status \in {"Not Implemented", "Partially Implemented"}
    \/ score < Pt(5)
    \/ priority \in {"Critical", "High"}

\* the mutant reports every subcategory of the taxonomy, assessed or not
IsAssessed_always(asmts, subcat_id) == TRUE

\* `if subcat_id in assessments`
IsAssessed(asmts, subcat_id) == Has(asmts, subcat_id)

\* the assessment record read for a subcategory; the empty record stands for
\* a subcategory without one (only the mutant of IsAssessed reads it)
RecordOf(asmts, subcat_id) ==
    IF Has(asmts, subcat_id) THEN Lookup(asmts, subcat_id) ELSE EmptyDict

\* the mutant stores the raw score as the weighted score and drops the notes
GapRecord_unweighted(function, category, subcategory, assessment, function_weight) ==
    LET score == Get(assessment, "score", 0)
        status == Get(assessment, "status", "Not Implemented")
        priority == calculate_priority_score(score, [function_weight |-> function_weight])
    IN  [Priority |-> priority,
         Function |-> function.name,
         Function_ID |-> function.id,
         Category |-> category.name,
         Subcategory_ID |-> subcategory.id,
         Description |-> subcategory.description,
         Current_Status |-> status,
         Current_Score |-> score,
         Weighted_Score |-> score * Pt(1),
         Function_Weight |-> function_weight,
         Remediation_Urgency |-> get_remediation_urgency(priority, score),
         Notes |-> ""]

\* the dict appended to gap_data for one subcategory
GapRecord(function, category, subcategory, assessment, function_weight) ==
    LET score == Get(assessment, "score", 0)
        status == Get(assessment, "status", "Not Implemented")
        priority == calculate_priority_score(score, [function_weight |-> function_weight])
    IN  [Priority |-> priority,
         Function |-> function.name,
         Function_ID |-> function.id,
         Category |-> category.name,
         Subcategory_ID |-> subcategory.id,
         Description |-> subcategory.description,
         Current_Status |-> status,
         Current_Score |-> score,
         Weighted_Score |-> score * function_weight,
         Function_Weight |-> function_weight,
         Remediation_Urgency |-> get_remediation_urgency(priority, score),
         Notes |-> Get(assessment, "notes", "")]

\* the gap records of one subcategory: none or one
SubcategoryGaps(function, category, subcategory, asmts, function_weight) ==
    IF IsAssessed(asmts, subcategory.id)
    THEN LET assessment == RecordOf(asmts, subcategory.id)
             score == Get(assessment, "score", 0)
             status == Get(assessment, "status", "Not Implemented")
             priority == calculate_priority_score(score, [function_weight |-> function_weight])
         IN  IF is_gap(status, score, priority)
             THEN <<GapRecord(function, category, subcategory, assessment, function_weight)>>
             ELSE <<>>
    ELSE <<>>

RECURSIVE SubcategoryLoop(_, _, _, _, _)
\* for subcategory in category["subcategories"]
SubcategoryLoop(function, category, subs, asmts, function_weight) ==
    IF subs = <<>> THEN <<>>
    ELSE SubcategoryGaps(function, category, Head(subs), asmts, function_weight)
         \o SubcategoryLoop(function, category, Tail(subs), asmts, function_weight)

RECURSIVE CategoryLoop(_, _, _, _)
\* for category in function["categories"]
CategoryLoop(function, cats, asmts, function_weight) ==
    IF cats = <<>> THEN <<>>
    ELSE SubcategoryLoop(function, Head(cats), Head(cats).subcategories, asmts, function_weight)
         \o CategoryLoop(function, Tail(cats), asmts, function_weight)

RECURSIVE FunctionLoop(_, _, _)
\* for function in nist_data["functions"]
FunctionLoop(funcs, asmts, w) ==
    IF funcs = <<>> THEN <<>>
    ELSE CategoryLoop(Head(funcs), Head(funcs).categories, asmts,
                      Get(w, Head(funcs).id, Pt(1)))
         \o FunctionLoop(Tail(funcs), asmts, w)

RECURSIVE AssessmentOrderLoop(_, _, _, _)
\* the mutant walks the assessments dict and looks each key up in the
\* taxonomy, so that the output is in the order of the assessments' keys
AssessmentOrderLoop(i, asmts, w, nist) ==
    IF i > Len(asmts) THEN <<>>
    ELSE SelectSeq(FunctionLoop(nist.functions, asmts, w),
                   LAMBDA g : g.Subcategory_ID = asmts[i].k)
         \o AssessmentOrderLoop(i + 1, asmts, w, nist)

analyze_gaps_in_assessment_order(asmts, w, nist) ==
    AssessmentOrderLoop(1, asmts, w, nist)

\* analyze_gaps_with_weights(assessments, weights, nist_data)
analyze_gaps_with_weights(asmts, w, nist) ==
    FunctionLoop(nist.functions, asmts, w)

----------------------------------------------------------------------------
(* The data the analysis is called with *)

\* the largest score the assessment form accepts (number_input max_value)
MaxScore == 10

\* the largest weight the weights form accepts, in tenths (slider max_value 2.0,
\* min_value 0.1, step 0.1)
MaxWeight == 20

\* the number of entries of the assessments dict
MaxAssessed == 2

\* the options of the Status selectbox
Statuses ==
    {"Not Implemented", "Partially Implemented", "Fully Implemented", "Not Applicable"}

\* the scores of the assessment records: whole points of the assessment form
\* (0..MaxScore), below, on and above the thresholds of the analysis
FormScores == {Pt(n) : n \in {0, 2, 3, 5, 8} \cap 0..MaxScore}

\* every score with one decimal, 0.0..MaxScore
Scores == 0..Pt(MaxScore)

\* the weights of the weights form: 0.1..2.0 in steps of 0.1
Weights == 1..MaxWeight

\* AssessmentWeights.default_function_weights (it has no entry for GV)
default_function_weights ==
    [f \in {"ID", "PR", "DE", "RS", "RC"} |-> Pt(1)]

\* the weight maps a client has saved: none, the two maps of the tests
\* (GV 1.5 and GV 1.2), and a map of the weights form with its extremes
WeightMaps ==
    { EmptyDict,
      [GV |-> 15, ID |-> 10],
      [GV |-> 12, ID |-> 5],
      [ID |-> MaxWeight, PR |-> 1, DE |-> 10, RS |-> 10, RC |-> 10] }

\* the weights enhanced_gap_analysis_interface hands to the analysis:
\* `if not weights: weights = assessment_weights.default_function_weights`
LoadedWeights(saved) ==
    IF DOMAIN saved = {} THEN default_function_weights ELSE saved

\* get_minimal_nist_csf(), cut to its first three subcategories
NistMinimal ==
    [functions |-> <<
        [id |-> "GV", name |-> "Govern", categories |-> <<
            [id |-> "GV.OC", name |-> "Organizational Context", subcategories |-> <<
                [id |-> "GV.OC-01", description |-> "Legal requirements"],
                [id |-> "GV.OC-02", description |-> "Supply chain role"] >>] >>],
        [id |-> "ID", name |-> "Identify", categories |-> <<
            [id |-> "ID.AM", name |-> "Asset Management", subcategories |-> <<
                [id |-> "ID.AM-01", description |-> "Hardware inventory"] >>] >>] >>]

\* the same subcategories in another order of functions and subcategories,
\* and one category for each subcategory of GV
NistReordered ==
    [functions |-> <<
        [id |-> "ID", name |-> "Identify", categories |-> <<
            [id |-> "ID.AM", name |-> "Asset Management", subcategories |-> <<
                [id |-> "ID.AM-01", description |-> "Hardware inventory"] >>] >>],
        [id |-> "GV", name |-> "Govern", categories |-> <<
            [id |-> "GV.RM", name |-> "Risk Management Strategy", subcategories |-> <<
                [id |-> "GV.OC-02", description |-> "Supply chain role"] >>],
            [id |-> "GV.OC", name |-> "Organizational Context", subcategories |-> <<
                [id |-> "GV.OC-01", description |-> "Legal requirements"] >>] >>] >>]

Taxonomies == {NistMinimal, NistReordered}

\* the subcategory ids of the taxonomies
SubcategoryIds == {"GV.OC-01", "GV.OC-02", "ID.AM-01"}

\* the records of the assessment form (status, score, notes), and the record
\* that save_evidence_metadata creates for a subcategory that has none
AssessmentRecords ==
    [status : Statuses, score : FormScores, notes : {"Test notes"}]
    \cup {[evidence |-> "policy.pdf"]}

\* the entries a client's assessments dict can hold: a record for a
\* subcategory, and the weights that save_assessment_weights and
\* weights_interface store under the key "weights" of the same dict
Entries(w) ==
    {[k |-> id, v |-> r] : id \in SubcategoryIds, r \in AssessmentRecords}
    \cup {[k |-> "weights", v |-> w]}

\* the dicts of at most n entries, in every insertion order
RECURSIVE Dicts(_, _)
Dicts(n, w) ==
    IF n = 0 THEN {<<>>}
    ELSE LET shorter == Dicts(n - 1, w)
         IN  shorter \cup
             {Append(p[1], p[2]) :
                 p \in {q \in shorter \X Entries(w) :
                            Len(q[1]) = n - 1 /\ ~Has(q[1], q[2].k)}}

\* no direct call
NoCall ==
    [op |-> "none", score |-> 0, weights |-> EmptyDict, priority |-> "-", ret |-> "-"]

\* no chart drawn
NoCharts ==
    [overall_maturity |-> <<>>, function_scores |-> <<>>, filtered |-> <<>>,
     x |-> <<>>, y |-> <<>>]

\* a file that does not exist
Missing == [exists |-> FALSE]

\* an empty storage directory: no file written, no backup made
NoFiles ==
    [clients |-> Missing, assessments |-> Missing, evidence_files |-> Missing,
     backups |-> {}]

\* the session state before any data is loaded
NoSession ==
    [clients |-> <<>>, assessments |-> EmptyDict, evidence_files |-> EmptyDict,
     selected_client |-> "None", data_hash |-> None]

\* the parts of the state a step of the engine does not touch
Untouched ==
    /\ charts = NoCharts
    /\ files = NoFiles
    /\ session = NoSession
    /\ created = <<>>

----------------------------------------------------------------------------
(* The gap analysis, called as enhanced_gap_analysis_interface calls it *)

Init ==
    /\ nist_data \in Taxonomies
    /\ weights \in WeightMaps
    /\ assessments \in Dicts(MaxAssessed, weights)
    /\ gap_data = <<>>
    /\ pc = "ready"
    /\ call = NoCall
    /\ Untouched

\* a record with the defaults the analysis reads written into it
WithDefaults(assessment) ==
    [x \in DOMAIN assessment \cup {"score"} |->
        IF x \in DOMAIN assessment THEN assessment[x] ELSE 0]

\* an analysis that writes the defaults it reads back into the caller's
\* assessments dict (assessment.setdefault("score", 0))
AnalyzeGaps_in_place ==
    /\ pc = "ready"
    /\ gap_data' = analyze_gaps_with_weights(assessments, LoadedWeights(weights), nist_data)
    /\ assessments' = [i \in 1..Len(assessments) |->
                          [k |-> assessments[i].k, v |-> WithDefaults(assessments[i].v)]]
    /\ pc' = "returned"
    /\ UNCHANGED <<nist_data, weights, call>>
    /\ UNCHANGED storeVars

\* enhanced_gap_analysis_interface: load the weights, fall back to the
\* defaults, gap_data = gap_analyzer.analyze_gaps_with_weights(...)
AnalyzeGaps ==
    /\ pc = "ready"
    /\ gap_data' = analyze_gaps_with_weights(assessments, LoadedWeights(weights), nist_data)
    /\ pc' = "returned"
    /\ UNCHANGED <<nist_data, assessments, weights, call>>
    /\ UNCHANGED storeVars

Next == AnalyzeGaps

Spec == Init /\ [][Next]_vars

----------------------------------------------------------------------------
(* Direct calls of calculate_priority_score and _get_remediation_urgency *)

\* the priority tiers, most urgent first
priority_order == <<"Critical", "High", "Medium", "Low">>

Priorities == {priority_order[i] : i \in 1..Len(priority_order)}

\* the urgency levels, most urgent first
urgency_order == <<"Immediate", "High", "Medium", "Low">>

\* the weights argument of calculate_priority_score: None or {}, a dict with
\* the key function_weight, and a dict without it
WeightArgs ==
    {EmptyDict} \cup {[function_weight |-> w] : w \in Weights} \cup {[GV |-> 12]}

\* the calls before they are made
PendingCalls ==
    [op : {"calculate_priority_score"}, score : Scores, weights : WeightArgs,
     priority : {"-"}, ret : {"-"}]
    \cup
    [op : {"get_remediation_urgency"}, score : Scores, weights : {EmptyDict},
     priority : Priorities, ret : {"-"}]

InitCalls ==
    /\ nist_data = NistMinimal
    /\ weights = EmptyDict
    /\ assessments = <<>>
    /\ gap_data = <<>>
    /\ pc = "idle"
    /\ call \in PendingCalls
    /\ Untouched

\* gap_analyzer.calculate_priority_score(score, weights)
CallPriority ==
    /\ call.op = "calculate_priority_score"
    /\ call.ret = "-"
    /\ call' = [call EXCEPT !.ret = calculate_priority_score(call.score, call.weights)]
    /\ UNCHANGED gapVars
    /\ UNCHANGED storeVars

\* gap_analyzer._get_remediation_urgency(priority, score)
CallUrgency ==
    /\ call.op = "get_remediation_urgency"
    /\ call.ret = "-"
    /\ call' = [call EXCEPT !.ret = get_remediation_urgency(call.priority, call.score)]
    /\ UNCHANGED gapVars
    /\ UNCHANGED storeVars

NextCalls == CallPriority \/ CallUrgency

SpecCalls == InitCalls /\ [][NextCalls]_vars

----------------------------------------------------------------------------
(* Properties of the direct calls (checked under SpecCalls) *)

\* a call of calculate_priority_score that has returned
PriorityReturned == call.op = "calculate_priority_score" /\ call.ret # "-"

\* a call of _get_remediation_urgency that has returned
UrgencyReturned == call.op = "get_remediation_urgency" /\ call.ret # "-"

\* score x function_weight of the call, weight 1.0 when none is given
CallAdjusted ==
    call.score * (IF "function_weight" \in DOMAIN call.weights
                  THEN call.weights["function_weight"] ELSE Pt(1))

\* the position of a tier in priority_order: Critical 1 .. Low 4
Rank(p) == CHOOSE i \in 1..Len(priority_order) : priority_order[i] = p

C2_WeightedBoundaryIsCritical ==
    (/\ PriorityReturned
     /\ call.score = Pt(2)
     /\ DOMAIN call.weights = {"function_weight"}
     /\ CallAdjusted = Pt2(3))
    => call.ret = "Critical"

\* C5: the urgency is Immediate when the priority is Critical or the raw score
\* is below 2; otherwise High when the priority is High or the score is below
\* 4; otherwise Medium for priority Medium; otherwise Low.  A Medium or Low
\* priority is escalated by a raw score below 2 or below 4.
C5_UrgencyCascade ==
    UrgencyReturned =>
        LET immediate == call.priority = "Critical" \/ call.score < Pt(2)
            high == call.priority = "High" \/ call.score < Pt(4)
        IN  /\ (call.ret = "Immediate") <=> immediate
            /\ (call.ret = "High") <=> (~immediate /\ high)
            /\ (call.ret = "Medium") <=> (~immediate /\ ~high /\ call.priority = "Medium")
            /\ (call.ret = "Low") <=> (~immediate /\ ~high /\ call.priority # "Medium")
            /\ (call.priority \in {"Medium", "Low"} /\ call.score < Pt(2))
                   => call.ret = "Immediate"
            /\ (call.priority \in {"Medium", "Low"} /\ Pt(2) <= call.score /\ call.score < Pt(4))
                   => call.ret = "High"

\* C5 witness: priority Low with raw score 1.0 has been escalated to Immediate
C5_Witness ==
    /\ UrgencyReturned
    /\ call.priority = "Low"
    /\ call.score = Pt(1)
    /\ call.ret = "Immediate"

\* C9 (as claimed): on a 0..5 scale every boundary is halved (Critical below
\* 1.5, High below 2.5, Medium below 3.5), so a score s of that scale gets the
\* tier of 2s on the 0..10 scale.
C9_BoundariesHalvedOnScaleFive ==
    (PriorityReturned /\ call.score <= Pt(5)) =>
        /\ (call.ret = "Critical") <=> (2 * CallAdjusted < Pt2(3))
        /\ (call.ret = "High") <=> (Pt2(3) <= 2 * CallAdjusted /\ 2 * CallAdjusted < Pt2(5))
        /\ (call.ret = "Medium") <=> (Pt2(5) <= 2 * CallAdjusted /\ 2 * CallAdjusted < Pt2(7))
        /\ (call.ret = "Low") <=> (Pt2(7) <= 2 * CallAdjusted)

\* C10: for a fixed function weight the tier of a score is never less urgent
\* than the tier of any higher score.
C10_PriorityMonotoneInScore ==
    PriorityReturned =>
        \A s2 \in Scores :
            call.score < s2 =>
                Rank(call.ret) <= Rank(calculate_priority_score(s2, call.weights))

\* C10 witness: a score classified Critical, while a higher score under the
\* same weight is classified Low
C10_Witness ==
    /\ PriorityReturned
    /\ call.ret = "Critical"
    /\ DOMAIN call.weights = {"function_weight"}
    /\ \E s2 \in Scores :
          call.score < s2 /\ calculate_priority_score(s2, call.weights) = "Low"

\* the position of a level in urgency_order: Immediate 1 .. Low 4
UrgencyRank(u) == CHOOSE i \in 1..Len(urgency_order) : urgency_order[i] = u

\* C24: the remediation urgency is at least as urgent as the priority, for
\* every priority and raw score: Critical gives Immediate, High gives
\* Immediate or High, Medium never gives Low (the rank of the urgency is at
\* most the rank of the priority).
C24_UrgencyAtLeastPriority ==
    UrgencyReturned =>
        /\ UrgencyRank(call.ret) <= Rank(call.priority)
        /\ call.priority = "Critical" => call.ret = "Immediate"
        /\ call.priority = "High" => call.ret \in {"Immediate", "High"}
        /\ call.priority = "Medium" => call.ret # "Low"

\* C24 witness: priority Critical with raw score 5.0 (a function weight
\* below 0.6) has been given Immediate
C24_Witness ==
    /\ UrgencyReturned
    /\ call.priority = "Critical"
    /\ call.score = Pt(5)
    /\ calculate_priority_score(call.score, [function_weight |-> 5]) = "Critical"
    /\ call.ret = "Immediate"

\* the function weight of a call: 1.0 when none is given
CallWeight == Get(call.weights, "function_weight", Pt(1))

\* C25: for a fixed raw score the tier under a weight is never more urgent
\* than the tier under any lower weight; in particular the tier under a
\* weight above 1.0 is the same as or less urgent than the tier under 1.0.
C25_PriorityMonotoneInWeight ==
    PriorityReturned =>
        \A w2 \in Weights :
            LET other == calculate_priority_score(call.score, [function_weight |-> w2])
            IN  /\ CallWeight < w2 => Rank(call.ret) <= Rank(other)
                /\ w2 < CallWeight => Rank(other) <= Rank(call.ret)
                /\ (CallWeight > Pt(1) /\ w2 = Pt(1)) => Rank(other) <= Rank(call.ret)

\* C25 witness: score 4.0 under weight 2.0 has been classified Low, while it
\* is High under weight 1.0
C25_Witness ==
    /\ PriorityReturned
    /\ call.score = Pt(4)
    /\ call.weights = [function_weight |-> Pt(2)]
    /\ call.ret = "Low"
    /\ calculate_priority_score(call.score, [function_weight |-> Pt(1)]) = "High"

----------------------------------------------------------------------------
(* Properties of the gap analysis (checked under Spec) *)

RECURSIVE Concat(_)
\* the concatenation of a sequence of sequences
Concat(ss) == IF ss = <<>> THEN <<>> ELSE Head(ss) \o Concat(Tail(ss))

\* the subcategories of a taxonomy in function -> category -> subcategory
\* order, each with the id of its function
TaxonomyOrder(nist) ==
    Concat([f \in 1..Len(nist.functions) |->
        Concat([c \in 1..Len(nist.functions[f].categories) |->
            [sc \in 1..Len(nist.functions[f].categories[c].subcategories) |->
                [function_id |-> nist.functions[f].id,
                 id |-> nist.functions[f].categories[c].subcategories[sc].id]]])])

\* the subcategory ids of a traversal
TaxonomyIds(order) == {order[i].id : i \in 1..Len(order)}

\* the position of a subcategory in a traversal
TaxonomyPos(order, id) == CHOOSE i \in 1..Len(order) : order[i].id = id

\* the id of the function a subcategory belongs to
FunctionOf(order, id) == order[TaxonomyPos(order, id)].function_id

\* the weight the analysis applies to a function: 1.0 if the function is
\* missing from the weight map
WeightOf(function_id) == Get(LoadedWeights(weights), function_id, Pt(1))

\* the subcategory is in the returned gap list
Reported(id) == \E i \in 1..Len(gap_data) : gap_data[i].Subcategory_ID = id

\* the position of a key in the assessments dict
KeyPos(id) == CHOOSE i \in 1..Len(assessments) : assessments[i].k = id

\* C3: a subcategory with an assessment record is reported as a gap if and
\* only if its status is Not Implemented or Partially Implemented, or its raw
\* score is below 5, or its weight-adjusted priority is Critical or High.
C3_GapMembership ==
    pc = "returned" =>
        LET order == TaxonomyOrder(nist_data) IN
        \A id \in TaxonomyIds(order) \cap Keys(assessments) :
            LET assessment == Lookup(assessments, id)
                score == Get(assessment, "score", 0)
                status == Get(assessment, "status", "Not Implemented")
                adjusted == score * WeightOf(FunctionOf(order, id))
            IN  /\ Reported(id) <=>
                       \/ status \in {"Not Implemented", "Partially Implemented"}
                       \/ score < Pt(5)
                       \/ adjusted < Pt2(5)
                /\ (status = "Fully Implemented" /\ score >= Pt(5) /\ adjusted < Pt2(5))
                       => Reported(id)

\* C3 witness: a Fully Implemented record with raw score >= 5 has been
\* reported because its weighted score is below 5
C3_Witness ==
    /\ pc = "returned"
    /\ \E i \in 1..Len(gap_data) :
          /\ gap_data[i].Current_Status = "Fully Implemented"
          /\ gap_data[i].Current_Score >= Pt(5)
          /\ gap_data[i].Weighted_Score < Pt2(5)

\* C4: every gap record carries the weight of its subcategory's own function
\* (1.0 if missing from the weight map), Weighted_Score = raw score x that
\* weight, the priority of (score, weight), the urgency of (priority, raw
\* score) and the notes of the assessment record.  Not Implemented with score
\* 2.0 gives Critical / Immediate / 2.0 under weight 1.0 and Critical / 2.4
\* under weight 1.2.
C4_GapRecordFields ==
    pc = "returned" =>
        LET order == TaxonomyOrder(nist_data) IN
        \A i \in 1..Len(gap_data) :
            LET g == gap_data[i]
                assessment == Lookup(assessments, g.Subcategory_ID)
                score == Get(assessment, "score", 0)
                w == WeightOf(FunctionOf(order, g.Subcategory_ID))
            IN  /\ g.Function_ID = FunctionOf(order, g.Subcategory_ID)
                /\ g.Function_Weight = w
                /\ g.Current_Score = score
                /\ g.Weighted_Score = score * w
                /\ g.Priority = calculate_priority_score(score, [function_weight |-> w])
                /\ g.Remediation_Urgency = get_remediation_urgency(g.Priority, score)
                /\ g.Notes = Get(assessment, "notes", "")
                /\ (g.Current_Status = "Not Implemented" /\ score = Pt(2) /\ w = 10)
                       => /\ g.Priority = "Critical"
                          /\ g.Remediation_Urgency = "Immediate"
                          /\ g.Weighted_Score = 200
                /\ (g.Current_Status = "Not Implemented" /\ score = Pt(2) /\ w = 12)
                       => /\ g.Priority = "Critical"
                          /\ g.Weighted_Score = 240

\* C4 witness: the gap of the test: Not Implemented, score 2.0, weight 1.2
C4_Witness ==
    /\ pc = "returned"
    /\ \E i \in 1..Len(gap_data) :
          /\ gap_data[i].Current_Status = "Not Implemented"
          /\ gap_data[i].Current_Score = Pt(2)
          /\ gap_data[i].Function_Weight = 12
          /\ gap_data[i].Weighted_Score = 240
          /\ gap_data[i].Notes = "Test notes"

\* C6: a subcategory of the taxonomy without an entry in the assessments map
\* is never in the output; with an empty assessments map the output is empty.
C6_UnassessedNeverReported ==
    pc = "returned" =>
        /\ \A id \in TaxonomyIds(TaxonomyOrder(nist_data)) :
               ~Has(assessments, id) => ~Reported(id)
        /\ assessments = <<>> => gap_data = <<>>

\* C6 witness: the analysis has returned gaps while a subcategory of the
\* taxonomy has no assessment
C6_Witness ==
    /\ pc = "returned"
    /\ gap_data # <<>>
    /\ \E id \in TaxonomyIds(TaxonomyOrder(nist_data)) : ~Has(assessments, id)

\* C7 (as claimed): when the assessments map has a key that is not a
\* subcategory id of the taxonomy, the analysis fails with an error and
\* returns no gap list.
C7_DanglingKeyFails ==
    (pc # "ready" /\ \E key \in Keys(assessments) :
                         key \notin TaxonomyIds(TaxonomyOrder(nist_data)))
        => (pc = "raised" /\ gap_data = <<>>)

\* C8: the gap list is in taxonomy traversal order, whatever the priorities,
\* scores, weights and the key order of the assessments map.
C8_TaxonomyOrder ==
    pc = "returned" =>
        LET order == TaxonomyOrder(nist_data) IN
        \A i, j \in 1..Len(gap_data) :
            i < j => TaxonomyPos(order, gap_data[i].Subcategory_ID)
                         < TaxonomyPos(order, gap_data[j].Subcategory_ID)

\* C8 witness: two gaps are returned in taxonomy order although the second
\* was entered into the assessments map first, is more urgent and has the
\* lower score
C8_Witness ==
    /\ pc = "returned"
    /\ Len(gap_data) >= 2
    /\ KeyPos(gap_data[2].Subcategory_ID) < KeyPos(gap_data[1].Subcategory_ID)
    /\ Rank(gap_data[2].Priority) < Rank(gap_data[1].Priority)
    /\ gap_data[2].Current_Score < gap_data[1].Current_Score

----------------------------------------------------------------------------
(* The default weights and the purity of the analysis (checked under Spec) *)

\* the ids of the functions of get_minimal_nist_csf()
FunctionIds == {"GV", "ID", "PR", "DE", "RS", "RC"}

\* C12 (as claimed): the default weight map has an entry for each of the six
\* functions GV, ID, PR, DE, RS, RC and every entry is 1.0, so a client
\* without saved weights is analysed with weight 1.0 for every function.
C12_DefaultWeightsCoverSixFunctions ==
    (pc = "returned" /\ DOMAIN weights = {}) =>
        /\ DOMAIN LoadedWeights(weights) = FunctionIds
        /\ \A f \in FunctionIds :
               /\ f \in DOMAIN LoadedWeights(weights)
               /\ LoadedWeights(weights)[f] = Pt(1)
        /\ \A i \in 1..Len(gap_data) : gap_data[i].Function_Weight = Pt(1)

----------------------------------------------------------------------------
(* AssessmentWeights, called directly as the tests call it *)

\* the attributes of an AssessmentWeights object: the field __init__ sets and
\* the methods of the class
AssessmentWeightsAttributes ==
    {"default_function_weights", "get_weights", "set_weights", "render_weights_interface"}

\* the methods the tests and the application call on the object
CalledMethods ==
    {"get_weights", "set_weights", "calculate_weighted_score", "get_weights_for_industry"}

\* AssessmentWeights.get_weights(client_id): a copy of the defaults
get_weights(client_id) == default_function_weights

\* AssessmentWeights.set_weights(client_id, weights)
set_weights(client_id, w) == TRUE

\* the scores argument: None, {} and the maps from functions to their scores
\* (the test's 4.0, 6.0, 8.0)
ScoreArgs ==
    {None} \cup UNION {[S -> {Pt(4), Pt(6), Pt(8)}] : S \in SUBSET {"GV", "ID", "PR"}}

\* the calls before they are made
PendingWeightCalls ==
    [op : CalledMethods, scores : ScoreArgs, weights : WeightMaps \cup {None},
     done : {FALSE}, raised : {"none"}, ret : {0}]

InitWeights ==
    /\ nist_data = NistMinimal
    /\ weights = EmptyDict
    /\ assessments = <<>>
    /\ gap_data = <<>>
    /\ pc = "idle"
    /\ call \in PendingWeightCalls
    /\ Untouched

\* self.weights.get_weights(client_id)
CallGetWeights ==
    /\ call.op = "get_weights"
    /\ ~call.done
    /\ call' = [call EXCEPT !.done = TRUE, !.ret = get_weights("client-id")]
    /\ UNCHANGED gapVars
    /\ UNCHANGED storeVars

\* self.weights.set_weights(client_id, weights)
CallSetWeights ==
    /\ call.op = "set_weights"
    /\ ~call.done
    /\ call' = [call EXCEPT !.done = TRUE, !.ret = set_weights("client-id", call.weights)]
    /\ UNCHANGED gapVars
    /\ UNCHANGED storeVars

\* a call of a method the class does not define: the attribute lookup raises
CallMissingAttribute ==
    /\ call.op \notin AssessmentWeightsAttributes
    /\ ~call.done
    /\ call' = [call EXCEPT !.done = TRUE, !.raised = "AttributeError"]
    /\ UNCHANGED gapVars
    /\ UNCHANGED storeVars

NextWeights == CallGetWeights \/ CallSetWeights \/ CallMissingAttribute

SpecWeights == InitWeights /\ [][NextWeights]_vars

RECURSIVE WeightedSum(_, _, _)
\* sum of score_f x weight_f over the functions fs, weight 1.0 when missing
WeightedSum(fs, scores, w) ==
    IF fs = {} THEN 0
    ELSE LET f == CHOOSE x \in fs : TRUE
         IN  scores[f] * Get(w, f, Pt(1)) + WeightedSum(fs \ {f}, scores, w)

RECURSIVE WeightTotal(_, _)
\* sum of weight_f over the functions fs, weight 1.0 when missing
WeightTotal(fs, w) ==
    IF fs = {} THEN 0
    ELSE LET f == CHOOSE x \in fs : TRUE
         IN  Get(w, f, Pt(1)) + WeightTotal(fs \ {f}, w)

\* C11 (as claimed): calculate_weighted_score(scores, weights) returns
\* sum(score_f x weight_f) / sum(weight_f) over the functions present in
\* scores, with weight 1.0 for a function missing from weights, and returns
\* 0.0 without error when scores is empty or None.
C11_WeightedScore ==
    (call.op = "calculate_weighted_score" /\ call.done) =>
        /\ call.raised = "none"
        /\ IF call.scores = None \/ DOMAIN call.scores = {}
           THEN call.ret = 0
           ELSE call.ret * WeightTotal(DOMAIN call.scores, call.weights)
                    = WeightedSum(DOMAIN call.scores, call.scores, call.weights)

----------------------------------------------------------------------------
(* The charts of the gap analysis page: create_nist_maturity_radar and
   create_remediation_waterfall *)

RECURSIVE SumSeq(_)
\* sum(scores) of a list of numbers
SumSeq(scores) == IF scores = <<>> THEN 0 ELSE Head(scores) + SumSeq(Tail(scores))

\* sum(scores) / len(scores) for scores in tenths.  The quotient is kept in
\* 1/120 of a point, which is exact for every list of 1, 2, 3, 4 or 6 terms.
Mean(scores) == (SumSeq(scores) * 12) \div Len(scores)

\* the smaller of two numbers
Min(a, b) == IF a < b THEN a ELSE b

\* the scores list create_nist_maturity_radar collects for one function: the
\* score of every subcategory of the function that is a key of assessments
FunctionScoreList(function, asmts) ==
    LET subs == Concat([c \in 1..Len(function.categories) |->
                           function.categories[c].subcategories])
        Assessed(sc) == Has(asmts, sc.id)
        assessed == SelectSeq(subs, Assessed)
    IN  [i \in 1..Len(assessed) |-> Get(Lookup(asmts, assessed[i].id), "score", 0)]

\* the dict function_scores of create_nist_maturity_radar, in the order of
\* nist_data["functions"]: sum(scores) / len(scores) if scores else 0
function_scores(asmts, nist) ==
    [f \in 1..Len(nist.functions) |->
        LET scores == FunctionScoreList(nist.functions[f], asmts)
        IN  [k |-> nist.functions[f].id,
             v |-> IF scores # <<>> THEN Mean(scores) ELSE 0]]

\* the improvement of a gap without the cap: 10 - Current_Score
potential_improvement_uncapped(gap) == Pt(10) - gap.Current_Score

\* df['potential_improvement']: min(10 - row['Current_Score'], 3)
potential_improvement(gap) == Min(Pt(10) - gap.Current_Score, Pt(3))

\* df.groupby('Priority')['potential_improvement'].sum() for one priority
GroupSum(gaps, priority) ==
    LET InGroup(gap) == gap.Priority = priority
        group == SelectSeq(gaps, InGroup)
    IN  SumSeq([i \in 1..Len(group) |-> potential_improvement(group[i])])

\* create_remediation_waterfall: the priorities that have gaps, sorted
\* Critical, High, Medium, Low (x, with the bar of the total last), and their
\* sums followed by priority_impact.sum() (y); nothing for an empty list
create_remediation_waterfall(gaps) ==
    IF gaps = <<>> THEN [x |-> <<>>, y |-> <<>>]
    ELSE LET Grouped(priority) == \E i \in 1..Len(gaps) : gaps[i].Priority = priority
             index == SelectSeq(priority_order, Grouped)
             priority_impact == [i \in 1..Len(index) |-> GroupSum(gaps, index[i])]
         IN  [x |-> Append(index, "Total Impact"),
              y |-> Append(priority_impact, SumSeq(priority_impact))]

\* the selections of the priority and urgency filters: the defaults of the
\* page, and everything selected
FilterChoices ==
    { [priority_filter |-> {"Critical", "High"}, urgency_filter |-> {"Immediate", "High"}],
      [priority_filter |-> Priorities,
       urgency_filter |-> {urgency_order[i] : i \in 1..Len(urgency_order)}] }

\* filtered_gap_data of enhanced_gap_analysis_interface
filtered_gap_data(gaps, choice) ==
    LET Selected(gap) == /\ gap.Priority \in choice.priority_filter
                         /\ gap.Remediation_Urgency \in choice.urgency_filter
    IN  SelectSeq(gaps, Selected)

\* the scores of the records of the charts: 1.0, 5.0 and 8.0
ChartScores == {Pt(1), Pt(5), Pt(8)}

\* the records a subcategory can have when the charts are drawn
ChartRecords ==
    [status : Statuses, score : ChartScores, notes : {""}]
    \cup {[evidence |-> "policy.pdf"]}

RECURSIVE ChartDicts(_)
\* the assessments dicts with a record for some of the subcategories ids,
\* entered in the order of ids
ChartDicts(ids) ==
    IF ids = <<>> THEN {<<>>}
    ELSE LET rest == ChartDicts(Tail(ids))
         IN  rest \cup {<<[k |-> Head(ids), v |-> r]>> \o d : r \in ChartRecords, d \in rest}

InitCharts ==
    /\ nist_data \in Taxonomies
    /\ weights \in WeightMaps
    /\ assessments \in ChartDicts(<<"GV.OC-01", "GV.OC-02", "ID.AM-01">>)
    /\ gap_data = <<>>
    /\ pc = "ready"
    /\ call = NoCall
    /\ Untouched

\* gap_analyzer.create_nist_maturity_radar(assessments, nist_data)
CreateRadar ==
    /\ pc = "returned"
    /\ charts' = [charts EXCEPT !.function_scores = function_scores(assessments, nist_data)]
    /\ pc' = "radar"
    /\ UNCHANGED <<nist_data, assessments, weights, gap_data, call, files, session, created>>

\* gap_analyzer.create_remediation_waterfall(filtered_gap_data)
CreateWaterfall ==
    /\ pc = "radar"
    /\ \E choice \in FilterChoices :
          LET filtered == filtered_gap_data(gap_data, choice)
              chart == create_remediation_waterfall(filtered)
          IN  charts' = [charts EXCEPT !.filtered = filtered, !.x = chart.x, !.y = chart.y]
    /\ pc' = "waterfall"
    /\ UNCHANGED <<nist_data, assessments, weights, gap_data, call, files, session, created>>

NextCharts == AnalyzeGaps \/ CreateRadar \/ CreateWaterfall

SpecCharts == InitCharts /\ [][NextCharts]_vars

----------------------------------------------------------------------------
(* Properties of the charts (checked under SpecCharts) *)

\* what one gap adds to the impact of its tier: 10 - score, but 3 at most
CappedImpact(gap) ==
    IF Pt(10) - gap.Current_Score > Pt(3) THEN Pt(3) ELSE Pt(10) - gap.Current_Score

RECURSIVE ImpactOver(_, _)
\* the impact of the gaps at the positions idx of a gap list
ImpactOver(idx, gaps) ==
    IF idx = {} THEN 0
    ELSE LET i == CHOOSE n \in idx : TRUE
         IN  CappedImpact(gaps[i]) + ImpactOver(idx \ {i}, gaps)

\* C13: in the remediation impact each gap contributes min(10 - score, 3) to
\* the sum of its own priority tier, so no gap contributes more than 3 (a gap
\* at score 1 contributes 3, a gap at score 8 contributes 2); the sums of the
\* tiers are listed in the order Critical, High, Medium, Low and the total is
\* the sum of the sums of the tiers.
C13_RemediationImpact ==
    (pc = "waterfall" /\ charts.filtered # <<>>) =>
        LET gaps == charts.filtered
            n == Len(charts.x)
            TierOf(p) == {i \in 1..Len(gaps) : gaps[i].Priority = p}
        IN  /\ Len(charts.y) = n
            /\ charts.x[n] = "Total Impact"
            /\ \A p \in Priorities : TierOf(p) # {} <=> \E i \in 1..(n - 1) : charts.x[i] = p
            /\ \A i \in 1..(n - 1) :
                   /\ charts.x[i] \in Priorities
                   /\ charts.y[i] = ImpactOver(TierOf(charts.x[i]), gaps)
            /\ \A i, j \in 1..(n - 1) : i < j => Rank(charts.x[i]) < Rank(charts.x[j])
            /\ charts.y[n] = SumSeq(SubSeq(charts.y, 1, n - 1))
            /\ charts.y[n] = ImpactOver(1..Len(gaps), gaps)
            /\ \A i \in 1..Len(gaps) :
                   /\ CappedImpact(gaps[i]) <= Pt(3)
                   /\ gaps[i].Current_Score = Pt(1) => CappedImpact(gaps[i]) = Pt(3)
                   /\ gaps[i].Current_Score = Pt(8) => CappedImpact(gaps[i]) = Pt(2)

\* C13 witness: a chart of two tiers, Critical with a gap at score 1.0 that
\* adds 3.0 and a later tier with a gap at score 8.0 that adds 2.0, total 5.0
C13_Witness ==
    /\ pc = "waterfall"
    /\ Len(charts.filtered) = 2
    /\ charts.filtered[1].Current_Score = Pt(8)
    /\ charts.filtered[2].Current_Score = Pt(1)
    /\ Len(charts.x) = 3
    /\ charts.x[1] = "Critical"
    /\ charts.y = <<Pt(3), Pt(2), Pt(5)>>

\* C14 (as claimed): the per-function aggregation has, for each function with
\* at least one assessed subcategory, the mean of the scores of its assessed
\* subcategories, and has no entry for a function with zero assessed
\* subcategories.
C14_UnassessedFunctionOmitted ==
    pc \in {"radar", "waterfall"} =>
        \A f \in 1..Len(nist_data.functions) :
            LET function_id == nist_data.functions[f].id
                scores == FunctionScoreList(nist_data.functions[f], assessments)
            IN  IF scores # <<>>
                THEN /\ Has(charts.function_scores, function_id)
                     /\ Lookup(charts.function_scores, function_id) = Mean(scores)
                ELSE ~Has(charts.function_scores, function_id)

----------------------------------------------------------------------------
(* DataPersistence: the files clients.json, assessments.json and
   evidence_files.json.  A file is Missing or the document a save wrote; a
   save that cannot write its file returns False and leaves the file as it
   was.  json.dump / json.load keep the str keys, numbers, lists and dicts of
   this data as they are; the timestamp of a write is the string "now". *)

\* which of the three files can be written during one operation
Writable == [clients : BOOLEAN, assessments : BOOLEAN, evidence_files : BOOLEAN]

\* _create_backup(file, data_type): copies the file if there is one
create_backup(fs, data_type) ==
    IF fs[data_type].exists THEN [fs EXCEPT !.backups = @ \cup {data_type}] ELSE fs

\* save_clients(clients): backup, then the document with its metadata
save_clients(fs, clients, writable) ==
    LET backed == create_backup(fs, "clients")
    IN  IF writable.clients
        THEN [backed EXCEPT !.clients =
                 [exists |-> TRUE, clients |-> clients,
                  metadata |-> [total_clients |-> Len(clients), version |-> "1.0"]]]
        ELSE backed

\* load_clients(): [] when there is no file
load_clients(fs) == IF fs.clients.exists THEN fs.clients.clients ELSE <<>>

\* save_assessments(assessments)
save_assessments(fs, asmts, writable) ==
    LET backed == create_backup(fs, "assessments")
    IN  IF writable.assessments
        THEN [backed EXCEPT !.assessments =
                 [exists |-> TRUE, assessments |-> asmts,
                  metadata |-> [total_clients |-> Cardinality(DOMAIN asmts),
                                version |-> "2.0"]]]
        ELSE backed

\* load_assessments(): {} when there is no file
load_assessments(fs) ==
    IF fs.assessments.exists THEN fs.assessments.assessments ELSE EmptyDict

\* save_evidence_files(evidence_files)
save_evidence_files(fs, evidence, writable) ==
    LET backed == create_backup(fs, "evidence_files")
    IN  IF writable.evidence_files
        THEN [backed EXCEPT !.evidence_files =
                 [exists |-> TRUE, evidence_files |-> evidence,
                  metadata |-> [total_clients |-> Cardinality(DOMAIN evidence),
                                version |-> "1.0"]]]
        ELSE backed

\* load_evidence_files(): {} when there is no file
load_evidence_files(fs) ==
    IF fs.evidence_files.exists THEN fs.evidence_files.evidence_files ELSE EmptyDict

\* save_all_data(clients, assessments, evidence_files): the three saves, each
\* attempted whatever the others returned; True if all three returned True
save_all_data(fs, clients, asmts, evidence, writable) ==
    [files |-> save_evidence_files(
                   save_assessments(save_clients(fs, clients, writable), asmts, writable),
                   evidence, writable),
     ret |-> writable.clients /\ writable.assessments /\ writable.evidence_files]

\* assessments.get(client_id, {}) / the {} a read-modify-write starts from
ClientData(asmts, client_id) == IF client_id \in DOMAIN asmts THEN asmts[client_id] ELSE <<>>

\* a save_assessment_weights that merges the new weights into the stored ones
\* (.update) instead of replacing them
save_assessment_weights_merging(fs, client_id, w, writable) ==
    LET asmts == load_assessments(fs)
        client == ClientData(asmts, client_id)
        stored == IF Has(client, "weights") THEN Lookup(client, "weights") ELSE EmptyDict
        merged == [f \in DOMAIN stored \cup DOMAIN w |->
                      IF f \in DOMAIN w THEN w[f] ELSE stored[f]]
        updated == SetItem(SetItem(client, "weights", merged), "weights_updated", "now")
    IN  [files |-> save_assessments(fs, Put(asmts, client_id, updated), writable),
         ret |-> writable.assessments]

\* save_assessment_weights between its load and its save: the client's dict
\* created if missing, and weights and weights_updated set in it
with_weights(asmts, client_id, w) ==
    LET client == ClientData(asmts, client_id)
        updated == SetItem(SetItem(client, "weights", w), "weights_updated", "now")
    IN  Put(asmts, client_id, updated)

\* save_assessment_weights(client_id, weights)
save_assessment_weights(fs, client_id, w, writable) ==
    LET asmts == load_assessments(fs)
    IN  [files |-> save_assessments(fs, with_weights(asmts, client_id, w), writable),
         ret |-> writable.assessments]

\* load_assessment_weights(client_id):
\* assessments.get(client_id, {}).get("weights", {})
load_assessment_weights(fs, client_id) ==
    LET client == ClientData(load_assessments(fs), client_id)
    IN  IF Has(client, "weights") THEN Lookup(client, "weights") ELSE EmptyDict

\* save_evidence_metadata between its load and its save: the client's dict
\* and the subcategory's record created if missing, and evidence set in it
with_evidence_metadata(asmts, client_id, subcategory_id, evidence_metadata) ==
    LET client == ClientData(asmts, client_id)
        record == IF Has(client, subcategory_id) THEN Lookup(client, subcategory_id)
                  ELSE EmptyDict
        updated == SetItem(client, subcategory_id, Put(record, "evidence", evidence_metadata))
    IN  Put(asmts, client_id, updated)

\* save_evidence_metadata(client_id, subcategory_id, evidence_metadata)
save_evidence_metadata(fs, client_id, subcategory_id, evidence_metadata, writable) ==
    LET asmts == load_assessments(fs)
    IN  [files |-> save_assessments(fs, with_evidence_metadata(asmts, client_id,
                                        subcategory_id, evidence_metadata), writable),
         ret |-> writable.assessments]

\* the clients of a list other than client_id:
\* [client for client in clients if client.get("id") != client_id]
OtherClients(clients, client_id) ==
    LET Other(client) == client.id # client_id
    IN  SelectSeq(clients, Other)

\* a delete_client that saves whether or not the client was found
delete_client_without_check(fs, client_id, writable) ==
    LET backed == create_backup(create_backup(create_backup(fs,
                      "clients"), "assessments"), "evidence_files")
    IN  save_all_data(backed, OtherClients(load_clients(backed), client_id),
                      Del(load_assessments(backed), client_id),
                      Del(load_evidence_files(backed), client_id), writable)

\* a delete_client that leaves the client's evidence files where they are
delete_client_keeping_evidence(fs, client_id, writable) ==
    LET backed == create_backup(create_backup(create_backup(fs,
                      "clients"), "assessments"), "evidence_files")
        clients == load_clients(backed)
        remaining == OtherClients(clients, client_id)
    IN  IF Len(remaining) = Len(clients)
        THEN [files |-> backed, ret |-> FALSE]
        ELSE save_all_data(backed, remaining, Del(load_assessments(backed), client_id),
                           load_evidence_files(backed), writable)

\* delete_client(client_id): three backups, load, filter the client list,
\* return False if nothing was filtered out, else drop the client's
\* assessments and evidence and save all
delete_client(fs, client_id, writable) ==
    LET backed == create_backup(create_backup(create_backup(fs,
                      "clients"), "assessments"), "evidence_files")
        clients == load_clients(backed)
        remaining == OtherClients(clients, client_id)
    IN  IF Len(remaining) = Len(clients)
        THEN [files |-> backed, ret |-> FALSE]
        ELSE save_all_data(backed, remaining, Del(load_assessments(backed), client_id),
                           Del(load_evidence_files(backed), client_id), writable)

\* the last n elements of a list: list[-n:]
Last(list, n) == IF Len(list) <= n THEN list ELSE SubSeq(list, Len(list) - n + 1, Len(list))

\* a create_assessment_snapshot that keeps every snapshot
create_assessment_snapshot_unbounded(fs, client_id, snapshot_data, snapshot_id, writable) ==
    LET asmts == load_assessments(fs)
        client == ClientData(asmts, client_id)
        snapshots == IF Has(client, "snapshots") THEN Lookup(client, "snapshots") ELSE <<>>
        snapshot == [id |-> snapshot_id, timestamp |-> "now", data |-> snapshot_data]
        updated == SetItem(client, "snapshots", Append(snapshots, snapshot))
    IN  [files |-> save_assessments(fs, Put(asmts, client_id, updated), writable),
         ret |-> writable.assessments]

\* create_assessment_snapshot between its load and its save: a snapshot with
\* a new uuid appended to the client's snapshots, the last 10 kept
with_snapshot(asmts, client_id, snapshot_data, snapshot_id) ==
    LET client == ClientData(asmts, client_id)
        snapshots == IF Has(client, "snapshots") THEN Lookup(client, "snapshots") ELSE <<>>
        snapshot == [id |-> snapshot_id, timestamp |-> "now", data |-> snapshot_data]
        updated == SetItem(client, "snapshots", Last(Append(snapshots, snapshot), 10))
    IN  Put(asmts, client_id, updated)

\* create_assessment_snapshot(client_id, snapshot_data)
create_assessment_snapshot(fs, client_id, snapshot_data, snapshot_id, writable) ==
    LET asmts == load_assessments(fs)
    IN  [files |-> save_assessments(fs, with_snapshot(asmts, client_id, snapshot_data,
                                        snapshot_id), writable),
         ret |-> writable.assessments]

\* load_session_data(): the three loads into the session state
load_session_data(ss, fs) ==
    [ss EXCEPT !.clients = load_clients(fs),
               !.assessments = load_assessments(fs),
               !.evidence_files = load_evidence_files(fs)]

\* save_session_data(): save_all_data of the session's three collections
save_session_data(ss, fs, writable) ==
    save_all_data(fs, ss.clients, ss.assessments, ss.evidence_files, writable)

\* the mutant leaves the selection on the deleted client
delete_client_from_session_keeping_selection(ss, fs, client_id, writable) ==
    LET deleted == delete_client(fs, client_id, writable)
        remaining == OtherClients(ss.clients, client_id)
    IN  [files |-> deleted.files,
         ret |-> deleted.ret,
         session |->
             IF deleted.ret
             THEN [ss EXCEPT
                      !.clients = remaining,
                      !.assessments = Del(@, client_id),
                      !.evidence_files = Del(@, client_id),
                      !.data_hash = None]
             ELSE ss]

\* delete_client_from_session(client_id): delete_client, and on success the
\* same removal from the session state, the selection moved off the deleted
\* client and data_hash reset
delete_client_from_session(ss, fs, client_id, writable) ==
    LET deleted == delete_client(fs, client_id, writable)
        remaining == OtherClients(ss.clients, client_id)
    IN  [files |-> deleted.files,
         ret |-> deleted.ret,
         session |->
             IF deleted.ret
             THEN [ss EXCEPT
                      !.clients = remaining,
                      !.assessments = Del(@, client_id),
                      !.evidence_files = Del(@, client_id),
                      !.selected_client =
                          IF @ = client_id
                          THEN (IF remaining # <<>> THEN remaining[1].id ELSE "None")
                          ELSE @,
                      !.data_hash = None]
             ELSE ss]

----------------------------------------------------------------------------
(* One operation of the persistence layer on a storage directory *)

\* the client ids of the operations; either can be missing from the stored
\* client list
StoreClientIds == {"client-1", "client-2"}

\* the record of a client in the client list
ClientRecord(client_id) ==
    [id |-> client_id,
     name |-> IF client_id = "client-1" THEN "Acme" ELSE "Globex",
     industry |-> "Finance"]

\* the stored client lists
StoredClientLists ==
    { <<>>, <<ClientRecord("client-1")>>, <<ClientRecord("client-2")>>,
      <<ClientRecord("client-1"), ClientRecord("client-2")>> }

\* the record the assessment form stores for a subcategory
StoredRecord ==
    [status |-> "Partially Implemented", score |-> Pt(5), notes |-> "", evidence |-> <<>>]

\* the weight maps that are saved: the map of the test and a map of the
\* weights form, which has no slider for GV
SavedWeights ==
    { [GV |-> 12, ID |-> 10, PR |-> 15],
      [ID |-> MaxWeight, PR |-> 1, DE |-> 10, RS |-> 10, RC |-> 10] }

\* what is stored for one client in assessments.json: nothing yet, a record,
\* a record and weights, weights only
StoredDicts ==
    { <<>>,
      <<[k |-> "GV.OC-01", v |-> StoredRecord]>>,
      <<[k |-> "GV.OC-01", v |-> StoredRecord],
        [k |-> "weights", v |-> [GV |-> 12, ID |-> 10, PR |-> 15]],
        [k |-> "weights_updated", v |-> "earlier"]>>,
      <<[k |-> "weights", v |-> [ID |-> MaxWeight, PR |-> 1, DE |-> 10, RS |-> 10, RC |-> 10]],
        [k |-> "weights_updated", v |-> "earlier"]>> }

\* the stored assessments: a dict for some of the clients
StoredAssessments == UNION {[S -> StoredDicts] : S \in SUBSET StoreClientIds}

\* the stored evidence files: the files of a subcategory for some of the clients
StoredEvidence ==
    UNION {[S -> {[x \in {"GV.OC-01"} |-> <<"policy.pdf">>]}] : S \in SUBSET StoreClientIds}

\* the storage directories an operation can find: the three collections
\* written by earlier saves, or one of the files never written
StoredFiles ==
    { save_all_data(NoFiles, clients, asmts, evidence,
                    [clients |-> written[1], assessments |-> written[2],
                     evidence_files |-> written[3]]).files :
          clients \in StoredClientLists, asmts \in StoredAssessments,
          evidence \in StoredEvidence,
          written \in {<<TRUE, TRUE, TRUE>>, <<FALSE, TRUE, TRUE>>,
                       <<TRUE, FALSE, TRUE>>, <<TRUE, TRUE, FALSE>>} }

\* operations that write assessments.json only: it can be written or not
AssessmentsWritable == {writable \in Writable : writable.clients /\ writable.evidence_files}

\* the evidence metadata of the test
EvidenceMetadata == [files |-> <<"test.pdf">>, tags |-> <<"policy", "compliance">>]

\* the snapshot data of the test, and another
SnapshotData ==
    { [overall_score |-> 65, function_scores |-> [GV |-> Pt(7), ID |-> Pt(6)]],
      [overall_score |-> 70, function_scores |-> [GV |-> Pt(8), ID |-> Pt(6)]] }

\* no operation yet
NoOperation ==
    [op |-> "none", client_id |-> "None", weights |-> EmptyDict, writable |-> None,
     ret |-> FALSE, loaded_for |-> "None", loaded |-> EmptyDict]

InitStore ==
    /\ nist_data = NistMinimal
    /\ weights = EmptyDict
    /\ assessments = <<>>
    /\ gap_data = <<>>
    /\ charts = NoCharts
    /\ created = <<>>
    /\ pc = "ready"
    /\ call = NoOperation
    /\ files \in StoredFiles
    /\ session =
           LET loaded == load_session_data(NoSession, files)
           IN  [loaded EXCEPT !.selected_client =
                   IF loaded.clients # <<>> THEN loaded.clients[1].id ELSE "None"]

\* data_persistence.save_assessment_weights(client_id, weights)
SaveAssessmentWeights ==
    /\ pc = "ready"
    /\ \E client_id \in StoreClientIds, w \in SavedWeights, writable \in AssessmentsWritable :
          LET saved == save_assessment_weights(files, client_id, w, writable)
          IN  /\ files' = saved.files
              /\ call' = [NoOperation EXCEPT !.op = "save_assessment_weights",
                             !.client_id = client_id, !.weights = w,
                             !.writable = writable, !.ret = saved.ret]
    /\ pc' = "saved"
    /\ UNCHANGED <<analysisVars, session, created>>

\* data_persistence.load_assessment_weights(client_id), first or after a
\* save_assessment_weights
LoadAssessmentWeights ==
    /\ pc \in {"ready", "saved"}
    /\ \E client_id \in StoreClientIds :
          call' = [call EXCEPT
                      !.op = IF pc = "ready" THEN "load_assessment_weights" ELSE @,
                      !.loaded_for = client_id,
                      !.loaded = load_assessment_weights(files, client_id)]
    /\ pc' = "loaded"
    /\ UNCHANGED <<analysisVars, files, session, created>>

\* data_persistence.save_evidence_metadata(client_id, subcategory_id, metadata)
SaveEvidenceMetadata ==
    /\ pc = "ready"
    /\ \E client_id \in StoreClientIds, writable \in AssessmentsWritable :
          LET saved == save_evidence_metadata(files, client_id, "GV.OC-01",
                                              EvidenceMetadata, writable)
          IN  /\ files' = saved.files
              /\ call' = [NoOperation EXCEPT !.op = "save_evidence_metadata",
                             !.client_id = client_id,
                             !.writable = writable, !.ret = saved.ret]
    /\ pc' = "done"
    /\ UNCHANGED <<analysisVars, session, created>>

\* data_persistence.create_assessment_snapshot(client_id, snapshot_data)
CreateAssessmentSnapshot ==
    /\ pc = "ready"
    /\ \E client_id \in StoreClientIds, snapshot_data \in SnapshotData,
          writable \in AssessmentsWritable :
          LET saved == create_assessment_snapshot(files, client_id, snapshot_data,
                                                  Len(created) + 1, writable)
          IN  /\ files' = saved.files
              /\ created' = IF saved.ret THEN Append(created, snapshot_data) ELSE created
              /\ call' = [NoOperation EXCEPT !.op = "create_assessment_snapshot",
                             !.client_id = client_id,
                             !.writable = writable, !.ret = saved.ret]
    /\ pc' = "done"
    /\ UNCHANGED <<analysisVars, session>>

\* data_persistence.delete_client(client_id)
DeleteClient ==
    /\ pc = "ready"
    /\ \E client_id \in StoreClientIds, writable \in Writable :
          LET deleted == delete_client(files, client_id, writable)
          IN  /\ files' = deleted.files
              /\ call' = [NoOperation EXCEPT !.op = "delete_client",
                             !.client_id = client_id,
                             !.writable = writable, !.ret = deleted.ret]
    /\ pc' = "done"
    /\ UNCHANGED <<analysisVars, session, created>>

\* delete_client_from_session(client_id), the call of the sidebar
DeleteClientFromSession ==
    /\ pc = "ready"
    /\ \E client_id \in StoreClientIds, writable \in Writable :
          LET deleted == delete_client_from_session(session, files, client_id, writable)
          IN  /\ files' = deleted.files
              /\ session' = deleted.session
              /\ call' = [NoOperation EXCEPT !.op = "delete_client_from_session",
                             !.client_id = client_id,
                             !.writable = writable, !.ret = deleted.ret]
    /\ pc' = "done"
    /\ UNCHANGED <<analysisVars, created>>

\* save_session_data()
SaveSessionData ==
    /\ pc = "ready"
    /\ \E writable \in Writable :
          LET saved == save_session_data(session, files, writable)
          IN  /\ files' = saved.files
              /\ call' = [NoOperation EXCEPT !.op = "save_session_data",
                             !.writable = writable, !.ret = saved.ret]
    /\ pc' = "done"
    /\ UNCHANGED <<analysisVars, session, created>>

NextStore ==
    \/ SaveAssessmentWeights
    \/ LoadAssessmentWeights
    \/ SaveEvidenceMetadata
    \/ CreateAssessmentSnapshot
    \/ DeleteClient
    \/ DeleteClientFromSession
    \/ SaveSessionData

SpecStore == InitStore /\ [][NextStore]_vars

----------------------------------------------------------------------------
(* Properties of the persistence layer (checked under SpecStore) *)

\* the ids of the clients of a client list
ClientIdsOf(clients) == {clients[i].id : i \in 1..Len(clients)}

\* the storage has weights for the client
HasStoredWeights(fs, client_id) ==
    /\ fs.assessments.exists
    /\ client_id \in DOMAIN fs.assessments.assessments
    /\ Has(fs.assessments.assessments[client_id], "weights")

\* the storage has an assessment record of the client for the subcategory
HasStoredRecord(fs, client_id, subcategory_id) ==
    /\ fs.assessments.exists
    /\ client_id \in DOMAIN fs.assessments.assessments
    /\ Has(fs.assessments.assessments[client_id], subcategory_id)

\* two dicts hold the same for every key but client_id
SameForOthers(before, after, client_id) ==
    /\ DOMAIN after \ {client_id} = DOMAIN before \ {client_id}
    /\ \A other \in DOMAIN before \ {client_id} : after[other] = before[other]

\* C17: after save_assessment_weights(c, w) has returned True,
\* load_assessment_weights(c) returns exactly w, whether or not c had stored
\* data; load_assessment_weights for a client without stored weights returns
\* the empty map.
C17_WeightsRoundTrip ==
    pc = "loaded" =>
        /\ (/\ call.op = "save_assessment_weights"
            /\ call.ret
            /\ call.loaded_for = call.client_id) => call.loaded = call.weights
        /\ ~HasStoredWeights(files, call.loaded_for) => call.loaded = EmptyDict

\* C17 witness: weights saved for a client that is not in the client list
\* and had no stored record have been loaded back
C17_Witness ==
    /\ pc = "loaded"
    /\ call.op = "save_assessment_weights"
    /\ call.ret
    /\ call.loaded_for = call.client_id
    /\ call.client_id \notin ClientIdsOf(load_clients(files))
    /\ Keys(load_assessments(files)[call.client_id]) = {"weights", "weights_updated"}
    /\ call.loaded = [GV |-> 12, ID |-> 10, PR |-> 15]

C20_DeleteUnknownClient ==
    [][(/\ pc = "ready"
        /\ call'.op = "delete_client"
        /\ call'.client_id \notin ClientIdsOf(load_clients(files))) =>
           /\ call'.ret = FALSE
           /\ files'.clients = files.clients
           /\ files'.assessments = files.assessments
           /\ files'.evidence_files = files.evidence_files]_vars

\* C20 witness: with every file writable, delete_client has returned False
\* for an id that is not in the client list; the assessments and evidence
\* stored under that id are still there and backups were made
C20_Witness ==
    /\ pc = "done"
    /\ call.op = "delete_client"
    /\ ~call.ret
    /\ call.writable = [clients |-> TRUE, assessments |-> TRUE, evidence_files |-> TRUE]
    /\ call.client_id \notin ClientIdsOf(load_clients(files))
    /\ HasStoredRecord(files, call.client_id, "GV.OC-01")
    /\ call.client_id \in DOMAIN load_evidence_files(files)
    /\ files.backups = {"clients", "assessments", "evidence_files"}

\* C27 (as claimed): delete_client is all-or-nothing: when it returns False
\* because one of the three saves failed, none of the three stored files has
\* lost the client's data (the client's record, assessments and evidence are
\* stored as before the call).
C27_DeleteClientAllOrNothing ==
    [][(/\ pc = "ready"
        /\ call'.op = "delete_client"
        /\ call'.ret = FALSE) =>
           LET c == call'.client_id
           IN  /\ c \in ClientIdsOf(load_clients(files)) =>
                      load_clients(files') = load_clients(files)
               /\ c \in DOMAIN load_assessments(files) =>
                      /\ c \in DOMAIN load_assessments(files')
                      /\ load_assessments(files')[c] = load_assessments(files)[c]
               /\ c \in DOMAIN load_evidence_files(files) =>
                      /\ c \in DOMAIN load_evidence_files(files')
                      /\ load_evidence_files(files')[c] = load_evidence_files(files)[c]]_vars

----------------------------------------------------------------------------
(* Two UI sessions on the same storage directory.  Each runs one
   read-modify-write operation of DataPersistence for its own client; a step
   of a session is its load_assessments() or the rest of the operation up to
   the return of save_assessments().  DataPersistence takes no lock. *)

\* the sessions
Sessions == {1, 2}

\* the client a session works on
SessionClient(s) == IF s = 1 THEN "client-1" ELSE "client-2"

\* the operations a session can run, with their arguments
SessionOperations(s) ==
    [op : {"save_assessment_weights"}, client_id : {SessionClient(s)},
     weights : SavedWeights, snapshot_data : {None}, loaded : {None}, ret : {FALSE}]
    \cup [op : {"save_evidence_metadata"}, client_id : {SessionClient(s)},
          weights : {EmptyDict}, snapshot_data : {None}, loaded : {None}, ret : {FALSE}]
    \cup [op : {"create_assessment_snapshot"}, client_id : {SessionClient(s)},
          weights : {EmptyDict}, snapshot_data : SnapshotData, loaded : {None}, ret : {FALSE}]

\* what an operation saves, from the assessments it loaded
Modified(operation, snapshot_id) ==
    IF operation.op = "save_assessment_weights"
    THEN with_weights(operation.loaded, operation.client_id, operation.weights)
    ELSE IF operation.op = "save_evidence_metadata"
    THEN with_evidence_metadata(operation.loaded, operation.client_id, "GV.OC-01",
                                EvidenceMetadata)
    ELSE with_snapshot(operation.loaded, operation.client_id, operation.snapshot_data,
                       snapshot_id)

InitInterleaved ==
    /\ nist_data = NistMinimal
    /\ weights = EmptyDict
    /\ assessments = <<>>
    /\ gap_data = <<>>
    /\ charts = NoCharts
    /\ created = <<>>
    /\ session = NoSession
    /\ pc = [s \in Sessions |-> "called"]
    /\ call \in [Sessions -> UNION {SessionOperations(s) : s \in Sessions}]
    /\ \A s \in Sessions : call[s] \in SessionOperations(s)
    /\ files \in StoredFiles

\* assessments = self.load_assessments() of a session's operation
LoadAssessments ==
    \E s \in Sessions :
        /\ pc[s] = "called"
        /\ call' = [call EXCEPT ![s].loaded = load_assessments(files)]
        /\ pc' = [pc EXCEPT ![s] = "loaded"]
        /\ UNCHANGED <<analysisVars, files, session, created>>

\* the rest of a session's operation: the change of the loaded assessments
\* and return self.save_assessments(assessments)
SaveAssessments ==
    \E s \in Sessions, writable \in AssessmentsWritable :
        /\ pc[s] = "loaded"
        /\ files' = save_assessments(files, Modified(call[s], Len(created) + 1), writable)
        /\ call' = [call EXCEPT ![s].ret = writable.assessments]
        /\ created' = IF call[s].op = "create_assessment_snapshot" /\ writable.assessments
                      THEN Append(created, call[s].snapshot_data) ELSE created
        /\ pc' = [pc EXCEPT ![s] = "returned"]
        /\ UNCHANGED <<analysisVars, session>>

NextInterleaved == LoadAssessments \/ SaveAssessments

SpecInterleaved == InitInterleaved /\ [][NextInterleaved]_vars

\* the stored assessments hold the update of an operation
HoldsUpdate(fs, operation) ==
    LET client == ClientData(load_assessments(fs), operation.client_id)
    IN  IF operation.op = "save_assessment_weights"
        THEN Has(client, "weights") /\ Lookup(client, "weights") = operation.weights
        ELSE IF operation.op = "save_evidence_metadata"
        THEN /\ Has(client, "GV.OC-01")
             /\ Get(Lookup(client, "GV.OC-01"), "evidence", None) = EvidenceMetadata
        ELSE /\ Has(client, "snapshots")
             /\ \E i \in 1..Len(Lookup(client, "snapshots")) :
                    Lookup(client, "snapshots")[i].data = operation.snapshot_data

\* C26 (as claimed): no update of the shared assessments file is lost: when
\* the operations of the two sessions, for different clients and interleaved
\* at their load_assessments and save_assessments, have both returned True,
\* the file holds the update of each.
C26_NoLostUpdate ==
    (\A s \in Sessions : pc[s] = "returned" /\ call[s].ret) =>
        \A s \in Sessions : HoldsUpdate(files, call[s])

----------------------------------------------------------------------------
(* A sequence of create_assessment_snapshot calls for one client *)

\* the number of snapshots created in a run
MaxSnapshots == 12

InitSnapshots ==
    /\ nist_data = NistMinimal
    /\ weights = EmptyDict
    /\ assessments = <<>>
    /\ gap_data = <<>>
    /\ charts = NoCharts
    /\ session = NoSession
    /\ created = <<>>
    /\ pc = "snapshots"
    /\ call = NoOperation
    /\ files \in
           { NoFiles,
             save_assessments(NoFiles,
                 [c \in {"client-1"} |-> <<[k |-> "GV.OC-01", v |-> StoredRecord]>>],
                 [clients |-> TRUE, assessments |-> TRUE, evidence_files |-> TRUE]) }

\* data_persistence.create_assessment_snapshot("client-1", snapshot_data),
\* called again and again; the uuid of a snapshot is the number of the call
CreateNextSnapshot ==
    /\ pc = "snapshots"
    /\ Len(created) < MaxSnapshots
    /\ \E snapshot_data \in SnapshotData, writable \in AssessmentsWritable :
          LET saved == create_assessment_snapshot(files, "client-1", snapshot_data,
                                                  Len(created) + 1, writable)
          IN  /\ files' = saved.files
              /\ created' = IF saved.ret THEN Append(created, snapshot_data) ELSE created
              /\ call' = [NoOperation EXCEPT !.op = "create_assessment_snapshot",
                             !.client_id = "client-1",
                             !.writable = writable, !.ret = saved.ret]
    /\ UNCHANGED <<analysisVars, session, pc>>

NextSnapshots == CreateNextSnapshot

SpecSnapshots == InitSnapshots /\ [][NextSnapshots]_vars

\* the snapshot list stored for a client, [] if there is none
StoredSnapshots(fs, client_id) ==
    LET client == ClientData(load_assessments(fs), client_id)
    IN  IF Has(client, "snapshots") THEN Lookup(client, "snapshots") ELSE <<>>

\* C18: after n successful create_assessment_snapshot calls for a client the
\* stored snapshot list holds exactly the min(n, 10) most recently created
\* snapshots, in creation order, each with the data that was passed in; the
\* list never has more than 10 entries.
C18_LastTenSnapshots ==
    pc = "snapshots" =>
        LET snapshots == StoredSnapshots(files, "client-1")
            n == Len(created)
            kept == IF n < 10 THEN n ELSE 10
        IN  /\ Len(snapshots) = kept
            /\ Len(snapshots) <= 10
            /\ \A i \in 1..Len(snapshots) :
                   /\ snapshots[i].data = created[n - kept + i]
                   /\ snapshots[i].id = n - kept + i

\* C18 witness: more than 10 snapshots have been created; the list holds 10,
\* the oldest of them is not the first one created, and the client's record
\* is still stored
C18_Witness ==
    /\ pc = "snapshots"
    /\ Len(created) > 10
    /\ Len(StoredSnapshots(files, "client-1")) = 10
    /\ StoredSnapshots(files, "client-1")[1].id = Len(created) - 9
    /\ StoredSnapshots(files, "client-1")[1].data # StoredSnapshots(files, "client-1")[10].data
    /\ HasStoredRecord(files, "client-1", "GV.OC-01")

----------------------------------------------------------------------------
(* The assessment dashboard of the client portal: one run of the script for
   each press of a button.  A run is main(): auto_save_data, then the
   Assessment, Weights and Gap Analysis tabs of assessment_dashboard in this
   order.  hash(str(data)) is modelled by the data it is computed from. *)

\* what auto_save_data hashes
HashedData(ss) ==
    [clients |-> ss.clients, assessments |-> ss.assessments,
     evidence_files |-> ss.evidence_files]

\* the mutant keeps the new hash whether or not the save succeeded
auto_save_data_keeping_hash(ss, fs, writable) ==
    IF HashedData(ss) # ss.data_hash
    THEN LET saved == save_session_data(ss, fs, writable)
         IN  [session |-> [ss EXCEPT !.data_hash = HashedData(ss)],
              files |-> saved.files, ret |-> saved.ret]
    ELSE [session |-> ss, files |-> fs, ret |-> FALSE]

\* auto_save_data(): save the session if its hash is not data_hash, and keep
\* the new hash if the save succeeded; returns True if it saved
auto_save_data(ss, fs, writable) ==
    IF HashedData(ss) # ss.data_hash
    THEN LET saved == save_session_data(ss, fs, writable)
         IN  [session |-> IF saved.ret THEN [ss EXCEPT !.data_hash = HashedData(ss)] ELSE ss,
              files |-> saved.files, ret |-> saved.ret]
    ELSE [session |-> ss, files |-> fs, ret |-> FALSE]

\* the record assessment_interface creates for a subcategory that has none
DefaultRecord ==
    [status |-> "Not Implemented", score |-> 0, notes |-> "", evidence |-> <<>>]

RECURSIVE InitializeRecords(_, _)
\* assessment_interface: a default record for every subcategory of the
\* taxonomy that is not yet in the client's dict, in taxonomy order
InitializeRecords(order, dict) ==
    IF order = <<>> THEN dict
    ELSE InitializeRecords(Tail(order),
             IF Has(dict, Head(order).id) THEN dict
             ELSE Append(dict, [k |-> Head(order).id, v |-> DefaultRecord]))

\* record.update({"status": status, "score": score, "notes": notes})
UpdateRecord(record, status, score, notes) ==
    Put(Put(Put(record, "status", status), "score", score), "notes", notes)

\* all_scores of enhanced_gap_analysis_interface:
\* [assessment.get("score", 0) for assessment in assessments.values()]
all_scores(dict) == [i \in 1..Len(dict) |-> Get(dict[i].v, "score", 0)]

\* overall_maturity = sum(all_scores) / len(all_scores) if all_scores else 0
overall_maturity(dict) ==
    IF all_scores(dict) # <<>> THEN Mean(all_scores(dict)) ELSE 0

\* the status and the score entered in the assessment form; a record that was
\* never saved has the defaults Not Implemented and 0
SessionStatuses == {"Fully Implemented"}

SessionScores == {Pt(8)}

\* the weights entered with the sliders of render_weights_interface, which
\* has a slider for ID, PR, DE, RS and RC
SliderWeights ==
    { [f \in {"ID", "PR", "DE", "RS", "RC"} |-> Pt(1)],
      [ID |-> MaxWeight, PR |-> 1, DE |-> 10, RS |-> 10, RC |-> 10] }

\* the buttons of the dashboard with the values of their forms
Clicks ==
    [button : {"Save"}, subcat_id : SubcategoryIds, status : SessionStatuses,
     score : SessionScores, new_weights : {EmptyDict}]
    \cup [button : {"Save Weights"}, subcat_id : {"-"}, status : {"-"},
          score : {0}, new_weights : SliderWeights]
    \cup [button : {"none"}, subcat_id : {"-"}, status : {"-"},
          score : {0}, new_weights : {EmptyDict}]

\* the storage directory during a run: every file can be written, or none
RunWritable ==
    { [clients |-> TRUE, assessments |-> TRUE, evidence_files |-> TRUE],
      [clients |-> FALSE, assessments |-> FALSE, evidence_files |-> FALSE] }

\* assessment_dashboard up to the tabs: select the first client if none is
\* selected, and create the client's assessments dict if it has none
SelectClient(ss) ==
    LET selected == IF ss.selected_client = "None" THEN ss.clients[1].id
                    ELSE ss.selected_client
    IN  [ss EXCEPT !.selected_client = selected,
                   !.assessments = IF selected \in DOMAIN @ THEN @ ELSE Put(@, selected, <<>>)]

\* assessment_interface: the default records, and for the Save button of a
\* subcategory the update of its record and save_session_data()
assessment_interface(ss, fs, nist, click, writable) ==
    LET client_id == ss.selected_client
        initialized == [ss EXCEPT !.assessments[client_id] =
                           InitializeRecords(TaxonomyOrder(nist), @)]
    IN  IF click.button = "Save"
        THEN LET updated == [initialized EXCEPT !.assessments[client_id] =
                                SetItem(@, click.subcat_id,
                                        UpdateRecord(Lookup(@, click.subcat_id),
                                                     click.status, click.score, ""))]
             IN  [session |-> updated,
                  files |-> save_session_data(updated, fs, writable).files]
        ELSE [session |-> initialized, files |-> fs]

\* weights_interface: for the Save Weights button save_assessment_weights,
\* and if it returned True the weights under the key "weights" of the
\* client's dict in the session
weights_interface(ss, fs, click, writable) ==
    LET client_id == ss.selected_client
    IN  IF click.button = "Save Weights"
        THEN LET saved == save_assessment_weights(fs, client_id, click.new_weights, writable)
             IN  [session |-> IF saved.ret
                              THEN [ss EXCEPT !.assessments[client_id] =
                                       SetItem(@, "weights", click.new_weights)]
                              ELSE ss,
                  files |-> saved.files]
        ELSE [session |-> ss, files |-> fs]

\* the session and the files after main() has run with one button pressed
DashboardRun(ss, fs, nist, click, writable) ==
    LET auto == auto_save_data(ss, fs, writable)
        tab1 == assessment_interface(SelectClient(auto.session), auto.files, nist,
                                     click, writable)
    IN  weights_interface(tab1.session, tab1.files, click, writable)

\* enhanced_gap_analysis_interface with the default filters: what the page
\* shows when gap_data is not empty
GapAnalysisPage(dict, gaps, nist) ==
    IF gaps = <<>> THEN NoCharts
    ELSE LET filtered == filtered_gap_data(gaps,
                             [priority_filter |-> {"Critical", "High"},
                              urgency_filter |-> {"Immediate", "High"}])
             chart == create_remediation_waterfall(filtered)
         IN  [overall_maturity |-> <<overall_maturity(dict)>>,
              function_scores |-> function_scores(dict, nist),
              filtered |-> filtered, x |-> chart.x, y |-> chart.y]

InitSession ==
    /\ nist_data = NistMinimal
    /\ weights = EmptyDict
    /\ assessments = <<>>
    /\ gap_data = <<>>
    /\ charts = NoCharts
    /\ created = <<>>
    /\ pc = "session"
    /\ call = NoOperation
    /\ files = save_all_data(NoFiles, <<ClientRecord("client-1")>>, EmptyDict, EmptyDict,
                             [clients |-> TRUE, assessments |-> TRUE,
                              evidence_files |-> TRUE]).files
    /\ session = load_session_data(NoSession, files)

\* one run of main() on the assessment dashboard
Run(click) ==
    /\ pc = "session"
    /\ \E writable \in RunWritable :
       \E run \in {DashboardRun(session, files, nist_data, click, writable)} :
       \E dict \in {run.session.assessments[run.session.selected_client]} :
       \E saved_weights \in {load_assessment_weights(run.files, run.session.selected_client)} :
       \E gaps \in {analyze_gaps_with_weights(dict, LoadedWeights(saved_weights), nist_data)} :
          /\ session' = run.session
          /\ files' = run.files
          /\ assessments' = dict
          /\ weights' = saved_weights
          /\ gap_data' = gaps
          /\ charts' = GapAnalysisPage(dict, gaps, nist_data)
          /\ call' = [NoOperation EXCEPT !.op = click.button, !.writable = writable]
    /\ UNCHANGED <<nist_data, pc, created>>

\* a run without a button: the page is opened or shown again
Rerun == \E click \in Clicks : click.button = "none" /\ Run(click)

\* the Save button of a subcategory
SaveAssessment == \E click \in Clicks : click.button = "Save" /\ Run(click)

\* the Save Weights button
SaveWeights == \E click \in Clicks : click.button = "Save Weights" /\ Run(click)

NextSession == Rerun \/ SaveAssessment \/ SaveWeights

SpecSession == InitSession /\ [][NextSession]_vars

RECURSIVE RecordScores(_)
\* the scores of the assessment records of a client's dict, one for each
\* subcategory that has a record
RecordScores(dict) ==
    IF dict = <<>> THEN <<>>
    ELSE IF Head(dict).k \in SubcategoryIds
         THEN <<Get(Head(dict).v, "score", 0)>> \o RecordScores(Tail(dict))
         ELSE RecordScores(Tail(dict))

\* C15 (as claimed): the overall maturity figure is the flat mean of the
\* scores of the client's assessment records, one per assessed subcategory
\* (0 when there are none), after any sequence of Save and Save Weights
\* presses: saving weights adds no term to the mean.
C15_OverallMaturityIsMeanOfRecords ==
    (pc = "session" /\ charts.overall_maturity # <<>>) =>
        LET scores == RecordScores(session.assessments[session.selected_client])
        IN  charts.overall_maturity = <<IF scores # <<>> THEN Mean(scores) ELSE 0>>

----------------------------------------------------------------------------
(* The client portal with its sidebar and the onboarding wizard: one run of
   main() for each press of a button.  A run is auto_save_data, the sidebar
   (client context, deletion confirmation, navigation, data actions) and the
   current page; st.rerun() ends the run where it is called.  A button is
   pressed in a run that reaches it.  The buttons that client_onboarding
   draws inside the branch of its Submit button are never reached in a later
   run, so that pressing one of them is a run without a button.  Text typed
   in a field is a sequence of characters where its form is tested. *)

\* the number of clients the wizard creates in a session
MaxCreated == 1

\* str(uuid.uuid4()): an id that no client has had
NewClientId(n) == "client-" \o ToString(n)

\* d.update(data) on a dict that is a function
Update(d, data) ==
    [k \in DOMAIN d \cup DOMAIN data |-> IF k \in DOMAIN data THEN data[k] ELSE d[k]]

Letters == {"a", "b", "c", "o"}

Digits == {"1"}

\* re.match(r"^[a-zA-Z0-9._%+-]+@[a-zA-Z0-9.-]+\.[a-zA-Z]{2,}$", email)
EmailMatches(email) ==
    \E at \in 1..Len(email), dot \in 1..Len(email) :
        /\ email[at] = "@"
        /\ at > 1
        /\ \A k \in 1..(at - 1) : email[k] \in Letters \cup Digits \cup {".", "_", "%", "+", "-"}
        /\ email[dot] = "."
        /\ dot > at + 1
        /\ \A k \in (at + 1)..(dot - 1) : email[k] \in Letters \cup Digits \cup {".", "-"}
        /\ Len(email) - dot >= 2
        /\ \A k \in (dot + 1)..Len(email) : email[k] \in Letters

valid_industries ==
    {"Finance", "Healthcare", "Manufacturing", "IT", "Government", "Education", "Retail",
     "Other"}

\* validate_basic_info(data)[0]
validate_basic_info(data) ==
    /\ Get(data, "name", "") # ""
    /\ Get(data, "industry", "") # ""
    /\ Get(Get(data, "contact", EmptyDict), "email", <<>>) # <<>>
    /\ EmailMatches(Get(Get(data, "contact", EmptyDict), "email", <<>>))
    /\ Get(data, "industry", "") \in valid_industries

\* the names, industries and emails typed or chosen at step 0
FormNames == {"", "Acme"}

FormIndustries == {"Finance"}

FormEmails ==
    { <<>>, <<"a", "@", "b", ".", "c", "o">>, <<"a", "@", "b", ".", "c">> }

\* the client a storage directory holds before the session starts
StoredPortalClient ==
    [id |-> "client-0", name |-> "Initech", industry |-> "Finance",
     contact |-> [email |-> <<"a", "1", "@", "b", ".", "c", "o">>, phone |-> "", primary |-> ""],
     size |-> "Small (<50)", created_date |-> "earlier"]

\* the pages of the navigation
Pages == {"Assessment Dashboard", "Client Onboarding", "Data Management"}

\* the buttons of the sidebar and of the wizard with the values of their
\* forms; "none" is a run without a button
PortalClicks ==
    [button : {"none", "Add New Client", "Edit", "New Assessment", "Delete",
               "Confirm Delete", "Cancel", "Save All Data", "Previous", "Next",
               "Edit Information", "Submit"},
     client_id : {"-"}, page : {"-"}, name : {""}, industry : {"-"}, email : {<<>>}]
    \cup [button : {"Select"}, client_id : {"client-0"} \cup {NewClientId(n) : n \in 1..MaxCreated},
          page : {"-"}, name : {""}, industry : {"-"}, email : {<<>>}]
    \cup [button : {"Navigate"}, client_id : {"-"}, page : Pages,
          name : {""}, industry : {"-"}, email : {<<>>}]
    \cup [button : {"Next at step 0"}, client_id : {"-"}, page : {"-"},
          name : FormNames, industry : FormIndustries, email : FormEmails]

\* st.session_state after initialize_session_state() on a storage directory
initialize_session_state(fs) ==
    [clients |-> load_clients(fs),
     assessments |-> load_assessments(fs),
     evidence_files |-> load_evidence_files(fs),
     selected_client |-> "None",
     data_hash |-> None,
     onboarding_step |-> 0,
     client_form_data |-> EmptyDict,
     current_page |-> "Assessment Dashboard",
     editing_client |-> FALSE,
     editing_client_id |-> "None",
     deleting_client_id |-> "None",
     deleting_client_name |-> "None"]

\* the client of a list with the id:
\* next((c for c in clients if c["id"] == client_id), None)
ClientWithId(clients, client_id) ==
    clients[CHOOSE i \in 1..Len(clients) :
                /\ clients[i].id = client_id
                /\ \A j \in 1..(i - 1) : clients[j].id # client_id]

\* a step of a run: the session and the files after it, whether st.rerun()
\* ended the run, and whether the pressed button has been met
Step(ss, fs, stop, fired) == [session |-> ss, files |-> fs, stop |-> stop, fired |-> fired]

\* _handle_client_edit(client, client_id)
handle_client_edit(ss, client, client_id) ==
    [ss EXCEPT
        !.editing_client_id = client_id,
        !.editing_client = TRUE,
        !.client_form_data =
            [name |-> Get(client, "name", ""),
             industry |-> Get(client, "industry", "Finance"),
             contact |-> [email |-> Get(Get(client, "contact", EmptyDict), "email", <<>>),
                          phone |-> Get(Get(client, "contact", EmptyDict), "phone", ""),
                          primary |-> Get(Get(client, "contact", EmptyDict), "primary", "")],
             size |-> Get(client, "size", "Small (<50)"),
             documents |-> Get(client, "documents", <<>>),
             notes |-> Get(client, "notes", "")],
        !.onboarding_step = 0,
        !.current_page = "Client Onboarding"]

\* _handle_new_assessment(client_id)
handle_new_assessment(ss, client_id) ==
    [ss EXCEPT
        !.assessments = IF client_id \in DOMAIN @ THEN @ ELSE Put(@, client_id, <<>>),
        !.current_page = "Assessment Dashboard",
        !.selected_client = client_id]

\* _handle_client_deletion(client, client_id)
handle_client_deletion(ss, client, client_id) ==
    [ss EXCEPT !.deleting_client_id = client_id,
               !.deleting_client_name = Get(client, "name", "Unknown Client")]

\* _render_client_context() with _render_client_info_card()
render_client_context(ss, fs, click, writable) ==
    IF ss.clients = <<>>
    THEN IF click.button = "Add New Client"
         THEN Step([ss EXCEPT !.onboarding_step = 0], fs, TRUE, TRUE)
         ELSE Step(ss, fs, FALSE, FALSE)
    ELSE LET selected == IF ss.selected_client \in ClientIdsOf(ss.clients)
                         THEN ss.selected_client ELSE ss.clients[1].id
             chosen == [ss EXCEPT !.selected_client = selected]
             client == ClientWithId(ss.clients, selected)
         IN  IF /\ click.button = "Select"
                /\ click.client_id \in ClientIdsOf(ss.clients)
                /\ click.client_id # selected
             THEN Step([chosen EXCEPT !.selected_client = click.client_id], fs, TRUE, TRUE)
             ELSE IF click.button = "Edit"
             THEN Step(handle_client_edit(chosen, client, selected), fs, TRUE, TRUE)
             ELSE IF click.button = "New Assessment"
             THEN Step(handle_new_assessment(chosen, selected), fs, TRUE, TRUE)
             ELSE IF click.button = "Delete"
             THEN Step(handle_client_deletion(chosen, client, selected), fs, TRUE, TRUE)
             ELSE Step(chosen, fs, FALSE, FALSE)

\* the mutant clears the pending deletion only when the deletion succeeded
render_deletion_confirmation_keeping_pending(ss, fs, click, writable) ==
    IF ss.deleting_client_id = "None"
    THEN Step(ss, fs, FALSE, FALSE)
    ELSE IF click.button = "Confirm Delete"
    THEN LET deleted == delete_client_from_session(ss, fs, ss.deleting_client_id, writable)
         IN  Step(IF deleted.ret
                  THEN [deleted.session EXCEPT !.deleting_client_id = "None",
                                               !.deleting_client_name = "None"]
                  ELSE deleted.session,
                  deleted.files, deleted.ret, TRUE)
    ELSE IF click.button = "Cancel"
    THEN Step([ss EXCEPT !.deleting_client_id = "None", !.deleting_client_name = "None"],
              fs, TRUE, TRUE)
    ELSE Step(ss, fs, FALSE, FALSE)

\* _render_deletion_confirmation()
render_deletion_confirmation(ss, fs, click, writable) ==
    IF ss.deleting_client_id = "None"
    THEN Step(ss, fs, FALSE, FALSE)
    ELSE IF click.button = "Confirm Delete"
    THEN LET deleted == delete_client_from_session(ss, fs, ss.deleting_client_id, writable)
         IN  Step([deleted.session EXCEPT !.deleting_client_id = "None",
                                          !.deleting_client_name = "None"],
                  deleted.files, deleted.ret, TRUE)
    ELSE IF click.button = "Cancel"
    THEN Step([ss EXCEPT !.deleting_client_id = "None", !.deleting_client_name = "None"],
              fs, TRUE, TRUE)
    ELSE Step(ss, fs, FALSE, FALSE)

\* _render_navigation(current_page): a button for every page but the current
\* one
render_navigation(ss, fs, current_page, click) ==
    IF click.button = "Navigate" /\ click.page # current_page
    THEN Step([ss EXCEPT !.current_page = click.page,
                         !.onboarding_step =
                             IF click.page = "Client Onboarding" THEN 0 ELSE @],
              fs, TRUE, TRUE)
    ELSE Step(ss, fs, FALSE, FALSE)

\* _render_data_actions(): the Save All Data button
render_data_actions(ss, fs, click, writable) ==
    IF click.button = "Save All Data"
    THEN Step(ss, save_session_data(ss, fs, writable).files, FALSE, TRUE)
    ELSE Step(ss, fs, FALSE, FALSE)

\* the data of the form of step 0
BasicInfo(click) ==
    [name |-> click.name, industry |-> click.industry,
     contact |-> [email |-> click.email, phone |-> "", primary |-> ""],
     size |-> "Small (<50)"]

\* clients[i] = client for the first i with clients[i].id = client_id
ReplaceClient(clients, client_id, client) ==
    IF client_id \in ClientIdsOf(clients)
    THEN [i \in 1..Len(clients) |->
             IF clients[i].id = client_id /\ \A j \in 1..(i - 1) : clients[j].id # client_id
             THEN client ELSE clients[i]]
    ELSE clients

\* the Submit Client / Update Client button of step 3
SubmitClient(ss, fs, writable, new_id) ==
    IF ss.editing_client /\ ss.editing_client_id # "None"
    THEN LET client == Put(Put(ss.client_form_data, "id", ss.editing_client_id),
                           "updated_date", "now")
             updated == [ss EXCEPT !.clients = ReplaceClient(@, ss.editing_client_id, client)]
         IN  Step([updated EXCEPT !.editing_client = FALSE, !.editing_client_id = "None"],
                  save_session_data(updated, fs, writable).files, FALSE, TRUE)
    ELSE LET client == Put(Put(ss.client_form_data, "id", new_id), "created_date", "now")
             added == [ss EXCEPT !.clients = Append(@, client)]
         IN  Step([added EXCEPT !.onboarding_step = 0, !.client_form_data = EmptyDict],
                  save_session_data(added, fs, writable).files, FALSE, TRUE)

\* the mutant goes on from step 0 without validating what was entered
client_onboarding_not_validating(ss, fs, click, writable, new_id) ==
    IF ss.onboarding_step = 0 /\ click.button = "Next at step 0"
    THEN Step([ss EXCEPT !.client_form_data = Update(@, BasicInfo(click)),
                         !.onboarding_step = @ + 1], fs, TRUE, TRUE)
    ELSE IF ss.onboarding_step \in {1, 2, 3} /\ click.button = "Previous"
    THEN Step([ss EXCEPT !.onboarding_step = @ - 1], fs, TRUE, TRUE)
    ELSE IF ss.onboarding_step = 1 /\ click.button = "Next"
    THEN Step([ss EXCEPT !.onboarding_step = @ + 1], fs, TRUE, TRUE)
    ELSE IF ss.onboarding_step = 2 /\ click.button = "Next"
    THEN Step([ss EXCEPT !.client_form_data = Put(@, "notes", ""),
                         !.onboarding_step = @ + 1], fs, TRUE, TRUE)
    ELSE IF ss.onboarding_step = 3 /\ click.button = "Edit Information"
    THEN Step([ss EXCEPT !.onboarding_step = 0], fs, TRUE, TRUE)
    ELSE IF ss.onboarding_step = 3 /\ click.button = "Submit"
    THEN SubmitClient(ss, fs, writable, new_id)
    ELSE Step(ss, fs, FALSE, FALSE)

\* the mutant stores what was entered at step 0 before it validates it
client_onboarding_storing_first(ss, fs, click, writable, new_id) ==
    IF ss.onboarding_step = 0 /\ click.button = "Next at step 0"
    THEN IF validate_basic_info(BasicInfo(click))
         THEN Step([ss EXCEPT !.client_form_data = Update(@, BasicInfo(click)),
                              !.onboarding_step = @ + 1], fs, TRUE, TRUE)
         ELSE Step([ss EXCEPT !.client_form_data = Update(@, BasicInfo(click))],
                   fs, FALSE, TRUE)
    ELSE IF ss.onboarding_step \in {1, 2, 3} /\ click.button = "Previous"
    THEN Step([ss EXCEPT !.onboarding_step = @ - 1], fs, TRUE, TRUE)
    ELSE IF ss.onboarding_step = 1 /\ click.button = "Next"
    THEN Step([ss EXCEPT !.onboarding_step = @ + 1], fs, TRUE, TRUE)
    ELSE IF ss.onboarding_step = 2 /\ click.button = "Next"
    THEN Step([ss EXCEPT !.client_form_data = Put(@, "notes", ""),
                         !.onboarding_step = @ + 1], fs, TRUE, TRUE)
    ELSE IF ss.onboarding_step = 3 /\ click.button = "Edit Information"
    THEN Step([ss EXCEPT !.onboarding_step = 0], fs, TRUE, TRUE)
    ELSE IF ss.onboarding_step = 3 /\ click.button = "Submit"
    THEN SubmitClient(ss, fs, writable, new_id)
    ELSE Step(ss, fs, FALSE, FALSE)

\* client_onboarding()
client_onboarding(ss, fs, click, writable, new_id) ==
    IF ss.onboarding_step = 0 /\ click.button = "Next at step 0"
    THEN IF validate_basic_info(BasicInfo(click))
         THEN Step([ss EXCEPT !.client_form_data = Update(@, BasicInfo(click)),
                              !.onboarding_step = @ + 1], fs, TRUE, TRUE)
         ELSE Step(ss, fs, FALSE, TRUE)
    ELSE IF ss.onboarding_step \in {1, 2, 3} /\ click.button = "Previous"
    THEN Step([ss EXCEPT !.onboarding_step = @ - 1], fs, TRUE, TRUE)
    ELSE IF ss.onboarding_step = 1 /\ click.button = "Next"
    THEN Step([ss EXCEPT !.onboarding_step = @ + 1], fs, TRUE, TRUE)
    ELSE IF ss.onboarding_step = 2 /\ click.button = "Next"
    THEN Step([ss EXCEPT !.client_form_data = Put(@, "notes", ""),
                         !.onboarding_step = @ + 1], fs, TRUE, TRUE)
    ELSE IF ss.onboarding_step = 3 /\ click.button = "Edit Information"
    THEN Step([ss EXCEPT !.onboarding_step = 0], fs, TRUE, TRUE)
    ELSE IF ss.onboarding_step = 3 /\ click.button = "Submit"
    THEN SubmitClient(ss, fs, writable, new_id)
    ELSE Step(ss, fs, FALSE, FALSE)

\* assessment_dashboard() without a button of its tabs
assessment_dashboard(ss, fs, nist, click, writable) ==
    IF ss.clients = <<>>
    THEN IF click.button = "Add New Client"
         THEN Step([ss EXCEPT !.onboarding_step = 0, !.current_page = "Client Onboarding"],
                   fs, TRUE, TRUE)
         ELSE Step(ss, fs, FALSE, FALSE)
    ELSE Step(assessment_interface(SelectClient(ss), fs, nist,
                                   [button |-> "none"], writable).session,
              fs, FALSE, FALSE)

\* a run goes on after a step when the step neither called st.rerun() nor
\* took the pressed button
GoesOn(step) == ~step.stop /\ ~step.fired

\* the storage directories a session starts on: nothing stored, or one client
PortalFiles ==
    { NoFiles,
      save_all_data(NoFiles, <<StoredPortalClient>>, EmptyDict, EmptyDict,
                    [clients |-> TRUE, assessments |-> TRUE, evidence_files |-> TRUE]).files }

\* no run yet
NothingEntered ==
    [name |-> "", industry |-> "-",
     contact |-> [email |-> <<>>, phone |-> "", primary |-> ""], size |-> "Small (<50)"]

\* the record of a run: its button, what the form of step 0 held, whether
\* the storage could be written, whether auto_save_data() saved, and what the
\* sidebar showed
NoRun ==
    [button |-> "none", auto_saved |-> FALSE, sidebar_rendered |-> FALSE,
     sidebar_selected |-> "-", entered |-> NothingEntered, writable |-> TRUE]

InitPortal ==
    /\ nist_data = NistMinimal
    /\ weights = EmptyDict
    /\ assessments = <<>>
    /\ gap_data = <<>>
    /\ charts = NoCharts
    /\ created = <<>>
    /\ pc = "portal"
    /\ call = NoRun
    /\ files \in PortalFiles
    /\ session = initialize_session_state(files)

\* one run of main() with a button, after initialize_session_state():
\* auto_save_data(), CyberTonicSidebar.render(current_page) and the page.
\* The run keeps what auto_save_data returned and the selected client as a
\* sidebar that rendered to its end left it.
PortalRun(click) ==
    /\ pc = "portal"
    /\ \E writable \in RunWritable :
       \E new_id \in {NewClientId(Len(created) + 1)} :
       \E auto \in {auto_save_data(session, files, writable)} :
       \E context \in {render_client_context(auto.session, auto.files, click, writable)} :
       \E confirmation \in
              {IF GoesOn(context)
               THEN render_deletion_confirmation(context.session, context.files,
                                                 click, writable)
               ELSE context} :
       \E navigation \in
              {IF GoesOn(confirmation)
               THEN render_navigation(confirmation.session, confirmation.files,
                                      auto.session.current_page, click)
               ELSE confirmation} :
       \E sidebar \in
              {IF GoesOn(navigation)
               THEN render_data_actions(navigation.session, navigation.files,
                                        click, writable)
               ELSE navigation} :
       \E page \in
              {IF GoesOn(sidebar) /\ sidebar.session.current_page = "Client Onboarding"
               THEN client_onboarding(sidebar.session, sidebar.files, click, writable, new_id)
               ELSE IF GoesOn(sidebar)
                       /\ sidebar.session.current_page = "Assessment Dashboard"
               THEN assessment_dashboard(sidebar.session, sidebar.files, nist_data,
                                         click, writable)
               ELSE sidebar} :
          /\ page.fired \/ click.button = "none"
          /\ Len(page.session.clients) > Len(session.clients) => Len(created) < MaxCreated
          /\ session' = page.session
          /\ files' = page.files
          /\ created' = IF Len(page.session.clients) > Len(session.clients)
                        THEN Append(created, new_id) ELSE created
          /\ call' = [button |-> click.button,
                      auto_saved |-> auto.ret,
                      sidebar_rendered |-> ~sidebar.stop,
                      sidebar_selected |-> IF sidebar.stop THEN "-"
                                           ELSE sidebar.session.selected_client,
                      entered |-> BasicInfo(click),
                      writable |-> writable.clients]
    /\ UNCHANGED <<analysisVars, pc>>

\* a run without a button: the page is opened or shown again
ShowPage == \E click \in PortalClicks : click.button = "none" /\ PortalRun(click)

\* the selector and the buttons of the client context
SelectActiveClient == \E click \in PortalClicks : click.button = "Select" /\ PortalRun(click)

AddNewClient == \E click \in PortalClicks : click.button = "Add New Client" /\ PortalRun(click)

EditClient == \E click \in PortalClicks : click.button = "Edit" /\ PortalRun(click)

NewAssessment == \E click \in PortalClicks : click.button = "New Assessment" /\ PortalRun(click)

PressDelete == \E click \in PortalClicks : click.button = "Delete" /\ PortalRun(click)

\* the buttons of the deletion confirmation
ConfirmDelete == \E click \in PortalClicks : click.button = "Confirm Delete" /\ PortalRun(click)

CancelDelete == \E click \in PortalClicks : click.button = "Cancel" /\ PortalRun(click)

\* a button of the navigation
Navigate == \E click \in PortalClicks : click.button = "Navigate" /\ PortalRun(click)

\* the Save All Data button
SaveAllData == \E click \in PortalClicks : click.button = "Save All Data" /\ PortalRun(click)

\* the buttons of the wizard
NextAtBasicInfo == \E click \in PortalClicks : click.button = "Next at step 0" /\ PortalRun(click)

WizardNext == \E click \in PortalClicks : click.button = "Next" /\ PortalRun(click)

WizardPrevious == \E click \in PortalClicks : click.button = "Previous" /\ PortalRun(click)

EditInformation ==
    \E click \in PortalClicks : click.button = "Edit Information" /\ PortalRun(click)

SubmitOrUpdate == \E click \in PortalClicks : click.button = "Submit" /\ PortalRun(click)

\* the sidebar with the pages: clients are added with the wizard going
\* forward, selected and deleted
NextPortal ==
    \/ ShowPage
    \/ SelectActiveClient
    \/ AddNewClient
    \/ PressDelete
    \/ ConfirmDelete
    \/ CancelDelete
    \/ Navigate
    \/ SaveAllData
    \/ NextAtBasicInfo
    \/ WizardNext
    \/ SubmitOrUpdate

SpecPortal == InitPortal /\ [][NextPortal]_vars

\* the wizard with the navigation and the Edit and New Assessment buttons of
\* the sidebar: clients are added and edited
NextWizard ==
    \/ ShowPage
    \/ AddNewClient
    \/ EditClient
    \/ NewAssessment
    \/ Navigate
    \/ NextAtBasicInfo
    \/ WizardNext
    \/ WizardPrevious
    \/ EditInformation
    \/ SubmitOrUpdate

SpecWizard == InitPortal /\ [][NextWizard]_vars

----------------------------------------------------------------------------
(* Properties of the sidebar (checked under SpecPortal) *)

\* the client ids that the session or the storage held before a run and no
\* longer hold after it, as a client, as assessments or as evidence files
Lost(ss, fs, ss2, fs2) ==
    (ClientIdsOf(ss.clients) \ ClientIdsOf(ss2.clients))
    \cup (DOMAIN ss.assessments \ DOMAIN ss2.assessments)
    \cup (DOMAIN ss.evidence_files \ DOMAIN ss2.evidence_files)
    \cup (ClientIdsOf(load_clients(fs)) \ ClientIdsOf(load_clients(fs2)))
    \cup (DOMAIN load_assessments(fs) \ DOMAIN load_assessments(fs2))
    \cup (DOMAIN load_evidence_files(fs) \ DOMAIN load_evidence_files(fs2))

\* no deletion is pending
NothingPending(ss) ==
    ss.deleting_client_id = "None" /\ ss.deleting_client_name = "None"

\* C21: the deletion of a client from the sidebar takes two steps.  Delete
\* records the id and the name of the shown client as pending and removes
\* nothing; data is removed only by Confirm Delete, and only the data of the
\* client that is pending; Cancel removes nothing; after Confirm Delete,
\* whether the deletion succeeded or failed, and after Cancel nothing is
\* pending, and only Delete makes a deletion pending, so that a second
\* confirmation needs a second Delete.
C21_TwoStepDeletion ==
    [][LET lost == Lost(session, files, session', files')
           pending == session.deleting_client_id
       IN  /\ call'.button = "Delete" =>
                  /\ lost = {}
                  /\ session'.clients = session.clients
                  /\ session'.deleting_client_id \in ClientIdsOf(session.clients)
                  /\ session'.deleting_client_id = session'.selected_client
                  /\ session'.deleting_client_name =
                         ClientWithId(session.clients, session'.deleting_client_id).name
           /\ call'.button = "Cancel" =>
                  /\ pending # "None"
                  /\ lost = {}
                  /\ session'.clients = session.clients
                  /\ NothingPending(session')
           /\ call'.button = "Confirm Delete" =>
                  /\ pending # "None"
                  /\ NothingPending(session')
           /\ lost # {} =>
                  /\ call'.button = "Confirm Delete"
                  /\ lost = {pending}
           /\ (session'.deleting_client_id # "None" /\ call'.button # "Delete") =>
                  /\ session'.deleting_client_id = pending
                  /\ session'.deleting_client_name = session.deleting_client_name]_vars

\* C21 witness: Confirm Delete was pressed while the storage could not be
\* written: both clients are still there, nothing is pending and the run
\* went on to the end of the sidebar
C21_Witness ==
    /\ pc = "portal"
    /\ call.button = "Confirm Delete"
    /\ call.sidebar_rendered
    /\ Len(session.clients) = 2
    /\ NothingPending(session)

\* the session data differs from the data whose hash data_hash holds
Changed(ss) == HashedData(ss) # ss.data_hash

\* the storage holds the hashed data of a session
Stores(fs, ss) ==
    /\ load_clients(fs) = ss.clients
    /\ load_assessments(fs) = ss.assessments
    /\ load_evidence_files(fs) = ss.evidence_files

\* C23: auto_save_data saves exactly when the hash of the session data
\* differs from data_hash: changed data is saved whenever the storage can be
\* written, a run without a button whose data is unchanged writes nothing
\* and keeps data_hash, and a run without a button whose save succeeded
\* leaves the data in the storage.  After a successful
\* save data_hash is the hash of the data of that moment; after a failed save
\* data_hash is what it was, so that the data still counts as changed in the
\* next run; a successful deletion of a client leaves data_hash None, for
\* which every data counts as changed.
C23_AutoSaveOnChange ==
    [][LET deleted == call'.button = "Confirm Delete"
                      /\ Lost(session, files, session', files') # {}
       IN  /\ call'.auto_saved => Changed(session)
           /\ (~Changed(session) /\ call'.button = "none") =>
                  /\ files' = files
                  /\ session'.data_hash = session.data_hash
           /\ Changed(session) => call'.auto_saved = call'.writable
           /\ (call'.auto_saved /\ call'.button = "none") => Stores(files', session)
           /\ (call'.auto_saved /\ ~deleted) => session'.data_hash = HashedData(session)
           /\ (Changed(session) /\ ~call'.auto_saved /\ ~deleted) =>
                  /\ session'.data_hash = session.data_hash
                  /\ Changed(session')
           /\ deleted => session'.data_hash = None /\ Changed(session')]_vars

\* C23 witness: the save of a changed session has just failed, the wizard's
\* client is in the session and not in the storage, and data_hash is still
\* the hash of the data stored earlier
C23_Witness ==
    /\ pc = "portal"
    /\ call.button = "none"
    /\ ~call.auto_saved
    /\ Changed(session)
    /\ session.data_hash # None
    /\ Len(session.clients) > Len(load_clients(files))

\* C30: when the sidebar has been rendered in a run, selected_client is None
\* if the session has no clients and otherwise the id of a client of the
\* session; after every run it is None or the id of a client of the session;
\* after the confirmed deletion of the selected client it is the first of
\* the remaining clients, or None when none remains, and not the deleted id.
C30_SelectedClientIsListed ==
    [][/\ call'.sidebar_rendered =>
             IF session.clients = <<>>
             THEN call'.sidebar_selected = "None"
             ELSE call'.sidebar_selected \in ClientIdsOf(session.clients)
       /\ session'.selected_client \in ClientIdsOf(session'.clients) \cup {"None"}
       /\ (/\ call'.button = "Confirm Delete"
           /\ Lost(session, files, session', files') # {}
           /\ session.selected_client = session.deleting_client_id) =>
             /\ session'.selected_client # session.deleting_client_id
             /\ session'.selected_client =
                    IF session'.clients = <<>> THEN "None" ELSE session'.clients[1].id]_vars

\* C30 witness: the selected client, the first of two, has been deleted and
\* the selection is on the client the wizard created
C30_Witness ==
    /\ pc = "portal"
    /\ call.button = "Confirm Delete"
    /\ ~call.sidebar_rendered
    /\ created # <<>>
    /\ ClientIdsOf(session.clients) = {created[1]}
    /\ session.selected_client = created[1]
    /\ ClientIdsOf(load_clients(files)) = {created[1]}

----------------------------------------------------------------------------
(* Properties of the onboarding wizard (checked under SpecWizard) *)

\* C22: onboarding_step is 0, 1, 2 or 3 in every state of a session.  Next
\* at step 0 advances to step 1 exactly when validate_basic_info accepts what
\* the form holds, and then the accepted data is in client_form_data; a
\* rejected Next leaves onboarding_step and client_form_data as they were.
C22_StepsAndValidatedNext ==
    /\ [](session.onboarding_step \in 0..3)
    /\ [][call'.button = "Next at step 0" =>
             /\ session.onboarding_step = 0
             /\ IF validate_basic_info(call'.entered)
                THEN /\ session'.onboarding_step = 1
                     /\ session'.client_form_data =
                            Update(session.client_form_data, call'.entered)
                ELSE /\ session'.onboarding_step = 0
                     /\ session'.client_form_data = session.client_form_data]_vars

\* C22 witness: Next was pressed at step 0 of an edit with an email that
\* validate_basic_info rejects: the wizard is still at step 0 and the form
\* data is still the data of the edited client
C22_Witness ==
    /\ pc = "portal"
    /\ call.button = "Next at step 0"
    /\ ~validate_basic_info(call.entered)
    /\ call.entered.name # ""
    /\ session.onboarding_step = 0
    /\ session.editing_client
    /\ Get(session.client_form_data, "name", "") = "Initech"

\* the records of a client list that a run appended or put in the place of
\* another record
Written(before, after) ==
    { after[i] : i \in { k \in 1..Len(after) : k > Len(before) \/ after[k] # before[k] } }

\* C28: every record that a press of Submit Client or Update Client appends
\* to the client list or puts in the place of another record satisfies
\* validate_basic_info, whatever wizard buttons, navigation and sidebar Edit
\* came before; this is so because the form data satisfies it at every step
\* after step 0.
C28_WizardWritesValidRecords ==
    /\ [](session.onboarding_step > 0 => validate_basic_info(session.client_form_data))
    /\ [][call'.button = "Submit" =>
             \A client \in Written(session.clients, session'.clients) :
                 validate_basic_info(client)]_vars

\* C28 witness: Update Client has put the validated form data in the place
\* of the stored client
C28_Witness ==
    /\ pc = "portal"
    /\ call.button = "Submit"
    /\ \E i \in 1..Len(session.clients) :
          /\ session.clients[i].id = "client-0"
          /\ session.clients[i].name = "Acme"
          /\ validate_basic_info(session.clients[i])

\* C29: a press of the last button of the wizard appends exactly one client
\* with an id that no client has (outside edit mode) or puts exactly one
\* record, the one with the id editing_client_id, in the place of the old one
\* and keeps the number of clients (edit mode); after either the wizard is
\* out of edit mode, at step 0, and its form data is empty.
C29_SubmitOnceAndReset ==
    [][call'.button = "Submit" =>
          /\ IF session.editing_client /\ session.editing_client_id # "None"
             THEN /\ Len(session'.clients) = Len(session.clients)
                  /\ \E i \in 1..Len(session.clients) :
                        /\ session.clients[i].id = session.editing_client_id
                        /\ session'.clients[i].id = session.editing_client_id
                        /\ \A j \in 1..Len(session.clients) :
                              j # i => session'.clients[j] = session.clients[j]
             ELSE /\ Len(session'.clients) = Len(session.clients) + 1
                  /\ SubSeq(session'.clients, 1, Len(session.clients)) = session.clients
                  /\ session'.clients[Len(session'.clients)].id
                         \notin ClientIdsOf(session.clients)
          /\ ~session'.editing_client
          /\ session'.editing_client_id = "None"
          /\ session'.onboarding_step = 0
          /\ session'.client_form_data = EmptyDict]_vars

====
